---- MODULE Spec2Model ----
(***************************************************************************)
(* Model of the hord look-aside cache driver (drivers/cache/lookaside)     *)
(* composed over two hord.Database handles.  The inner handles behave as   *)
(* the hashmap driver does, or, as the mock driver allows, answer a call   *)
(* with an arbitrary failure.  Every call into an inner handle is one      *)
(* atomic step (the hashmap driver holds its mutex for the whole call); a  *)
(* composite call is the sequence of its inner calls.                      *)
(*                                                                         *)
(* Go values:                                                              *)
(*   string   a tuple of byte codes, <<>> the empty string                 *)
(*   []byte   [isNil, b]: nil, or a slice with contents b (len = Len(b))   *)
(*   []string [isNil, s]: nil, or a slice with elements s                  *)
(*   error    the chain of sentinels it wraps, <<>> for nil                *)
(***************************************************************************)
EXTENDS Integers, Sequences, FiniteSets, TLC

\* Bounds of the model: the number of distinct non-empty keys and values.
NumKeys == 2
NumVals == 2
\* ... and the number of composite calls in a history.
MaxCalls == 3

Callers == {"c1", "c2"}
Stores == {"data", "cache"}

----------------------------------------------------------------------------
\* Go values

NilBytes == [isNil |-> TRUE, b |-> <<>>]
Bytes(s) == [isNil |-> FALSE, b |-> s]
EmptyBytes == Bytes(<<>>)
BytesLen(v) == Len(v.b)

NilStrs == [isNil |-> TRUE, s |-> <<>>]
Strs(q) == [isNil |-> FALSE, s |-> q]
EmptyStrs == Strs(<<>>)

KeyArgs == {<<>>} \cup {<<i>> : i \in 1..NumKeys}
StoredVals == {Bytes(<<i>>) : i \in 1..NumVals}
DataArgs == {NilBytes, EmptyBytes} \cup StoredVals

\* Errors
NoErr == <<>>
ErrInvalidKey == <<"ErrInvalidKey">>
ErrInvalidData == <<"ErrInvalidData">>
ErrNil == <<"ErrNil">>
ErrNoDial == <<"ErrNoDial">>
ErrCacheError == <<"ErrCacheError">>
ErrCacheTest == <<"ErrCacheTest">>
ErrDatabaseTest == <<"ErrDatabaseTest">>
\* an error of an inner driver that wraps the absence signal
ErrWrappedNil == <<"ErrDriver", "ErrNil">>

\* errors.Is(err, target) for a sentinel target
Is(err, target) == \E i \in 1..Len(err) : err[i] = target[1]
\* fmt.Errorf("%w: %w", a, b)
Wrap(a, b) == a \o b

\* as ValidData, but only a nil slice is refused
ValidData_nilOnly(data) == IF ~data.isNil THEN NoErr ELSE ErrInvalidData

ValidKey(key) == IF Len(key) > 0 THEN NoErr ELSE ErrInvalidKey
ValidData(data) == IF BytesLen(data) > 0 THEN NoErr ELSE ErrInvalidData

----------------------------------------------------------------------------
\* The hashmap driver: a handle is [open, m], m the map (closed: data = nil)

EmptyMap == [k \in {} |-> NilBytes]
HashmapDial == [open |-> TRUE, m |-> EmptyMap]

\* the result of an inner call: the handle afterwards and what it returned
Out(st, val, keys, err, fault) ==
    [st |-> st, val |-> val, keys |-> keys, err |-> err, fault |-> fault]

HashmapSetup(st) == Out(st, NilBytes, NilStrs, NoErr, FALSE)

HashmapGet(st, key) ==
    IF ValidKey(key) # NoErr THEN Out(st, EmptyBytes, NilStrs, ValidKey(key), FALSE)
    ELSE IF ~st.open THEN Out(st, EmptyBytes, NilStrs, ErrNoDial, FALSE)
    ELSE IF key \in DOMAIN st.m THEN Out(st, st.m[key], NilStrs, NoErr, FALSE)
    ELSE Out(st, EmptyBytes, NilStrs, ErrNil, FALSE)

MapPut(m, key, data) ==
    [k \in (DOMAIN m) \cup {key} |-> IF k = key THEN data ELSE m[k]]
MapDel(m, key) == [k \in (DOMAIN m) \ {key} |-> m[k]]

\* as HashmapSet, but a key that is stored keeps its value
HashmapSet_noOverwrite(st, key, data) ==
    IF ValidKey(key) # NoErr THEN Out(st, NilBytes, NilStrs, ValidKey(key), FALSE)
    ELSE IF ValidData(data) # NoErr THEN Out(st, NilBytes, NilStrs, ValidData(data), FALSE)
    ELSE IF ~st.open THEN Out(st, NilBytes, NilStrs, ErrNoDial, FALSE)
    ELSE IF key \in DOMAIN st.m THEN Out(st, NilBytes, NilStrs, NoErr, FALSE)
    ELSE Out([st EXCEPT !.m = MapPut(st.m, key, data)], NilBytes, NilStrs, NoErr, FALSE)

\* as HashmapSet, but the data is not validated
HashmapSet_noDataCheck(st, key, data) ==
    IF ValidKey(key) # NoErr THEN Out(st, NilBytes, NilStrs, ValidKey(key), FALSE)
    ELSE IF ~st.open THEN Out(st, NilBytes, NilStrs, ErrNoDial, FALSE)
    ELSE Out([st EXCEPT !.m = MapPut(st.m, key, data)], NilBytes, NilStrs, NoErr, FALSE)

HashmapSet(st, key, data) ==
    IF ValidKey(key) # NoErr THEN Out(st, NilBytes, NilStrs, ValidKey(key), FALSE)
    ELSE IF ValidData(data) # NoErr THEN Out(st, NilBytes, NilStrs, ValidData(data), FALSE)
    ELSE IF ~st.open THEN Out(st, NilBytes, NilStrs, ErrNoDial, FALSE)
    ELSE Out([st EXCEPT !.m = MapPut(st.m, key, data)], NilBytes, NilStrs, NoErr, FALSE)

\* as HashmapDelete, but deleting a key that is not stored is an error
HashmapDelete_absentFails(st, key) ==
    IF ValidKey(key) # NoErr THEN Out(st, NilBytes, NilStrs, ValidKey(key), FALSE)
    ELSE IF ~st.open THEN Out(st, NilBytes, NilStrs, ErrNoDial, FALSE)
    ELSE IF key \notin DOMAIN st.m THEN Out(st, NilBytes, NilStrs, ErrNil, FALSE)
    ELSE Out([st EXCEPT !.m = MapDel(st.m, key)], NilBytes, NilStrs, NoErr, FALSE)

\* as HashmapDelete, but the key stays in the map
HashmapDelete_keeps(st, key) ==
    IF ValidKey(key) # NoErr THEN Out(st, NilBytes, NilStrs, ValidKey(key), FALSE)
    ELSE IF ~st.open THEN Out(st, NilBytes, NilStrs, ErrNoDial, FALSE)
    ELSE Out(st, NilBytes, NilStrs, NoErr, FALSE)

HashmapDelete(st, key) ==
    IF ValidKey(key) # NoErr THEN Out(st, NilBytes, NilStrs, ValidKey(key), FALSE)
    ELSE IF ~st.open THEN Out(st, NilBytes, NilStrs, ErrNoDial, FALSE)
    ELSE Out([st EXCEPT !.m = MapDel(st.m, key)], NilBytes, NilStrs, NoErr, FALSE)

\* the orders in which a range over a Go map may yield the keys of S
RECURSIVE Orders(_)
Orders(S) ==
    IF S = {} THEN {<<>>}
    ELSE UNION {{<<k>> \o q : q \in Orders(S \ {k})} : k \in S}

\* Keys appends to a nil slice, in map order: one outcome per order
HashmapKeys(st) ==
    IF ~st.open THEN {Out(st, NilBytes, EmptyStrs, ErrNoDial, FALSE)}
    ELSE IF DOMAIN st.m = {} THEN {Out(st, NilBytes, NilStrs, NoErr, FALSE)}
    ELSE {Out(st, NilBytes, Strs(q), NoErr, FALSE) : q \in Orders(DOMAIN st.m)}

HashmapHealthCheck(st) ==
    IF ~st.open THEN Out(st, NilBytes, NilStrs, ErrNoDial, FALSE)
    ELSE Out(st, NilBytes, NilStrs, NoErr, FALSE)

\* as HashmapClose, but the handle stays usable
HashmapClose_keepsOpen(st) == Out(st, NilBytes, NilStrs, NoErr, FALSE)

HashmapClose(st) ==
    Out([open |-> FALSE, m |-> EmptyMap], NilBytes, NilStrs, NoErr, FALSE)

----------------------------------------------------------------------------
\* The mock driver: a configured function may answer anything.  The answers
\* drawn here are the failures the cache tests configure; the handle's own
\* state is left as it was.

ErrTest(s) == IF s = "cache" THEN ErrCacheTest ELSE ErrDatabaseTest

MockAnswers(st, s, method) ==
    IF method = "Get"
    THEN {Out(st, NilBytes, NilStrs, e, TRUE) : e \in {ErrTest(s), ErrNil, ErrWrappedNil, NoErr}}
    ELSE IF method = "Close" THEN {}
    ELSE {Out(st, NilBytes, NilStrs, ErrTest(s), TRUE)}

HashmapAnswers(st, method, key, data) ==
    CASE method = "Setup" -> {HashmapSetup(st)}
      [] method = "HealthCheck" -> {HashmapHealthCheck(st)}
      [] method = "Get" -> {HashmapGet(st, key)}
      [] method = "Set" -> {HashmapSet(st, key, data)}
      [] method = "Delete" -> {HashmapDelete(st, key)}
      [] method = "Keys" -> HashmapKeys(st)
      [] method = "Close" -> {HashmapClose(st)}

\* every answer the inner handle s may give to the call method(key, data)
Inner(st, s, method, key, data) ==
    HashmapAnswers(st, method, key, data) \cup MockAnswers(st, s, method)

----------------------------------------------------------------------------
\* State

VARIABLES
    lk,        \* the Lookaside handle: is it nil, has it a data / a cache handle
    store,     \* the two inner handles
    pc,        \* each caller's position in its composite call
    call,      \* each caller's current call: [op, key, data]
    locals,    \* the call's local variables: data, dataErr
    ret,       \* what the call returned: [val, keys, err]
    log,       \* the inner calls the current call has made, in order
    pre,       \* the inner handles as they were when the call began
    anyFault,  \* has any inner call been answered by a mock failure
    ncalls,    \* the number of composite calls begun so far
    fac,       \* the Dial call that made the caller's handle, and its result
    expect,    \* per key, the value of the last Set(k, v) that returned nil,
               \* while no other Set(k, .), Delete(k) or Close() followed it
    live,      \* the keys Set on the bare handle and not Deleted afterwards
    unsynced,  \* per key, the value of a Set(k, v) on the Lookaside whose data
               \* write succeeded and whose cache write failed, while no other
               \* Set(k, .), Delete(k) or Close() followed it
    mock,      \* the functions a mock handle was dialed with
    got,       \* per caller, the handle that GetCache / GetDatabase returned
    hist       \* what the calls so far have established, for the histories

vars == <<lk, store, pc, call, locals, ret, log, pre, anyFault, ncalls, fac, expect, live,
          unsynced, mock, got, hist>>

Ops == {"Setup", "HealthCheck", "Get", "Set", "Delete", "Keys", "CacheKeys", "Close"}

\* arguments each operation takes (the others are left at their zero value)
ArgKeys(op) == IF op \in {"Get", "Set", "Delete"} THEN KeyArgs ELSE {<<>>}
ArgData(op) == IF op = "Set" THEN DataArgs ELSE {NilBytes}

NoCall == [op |-> "none", key |-> <<>>, data |-> NilBytes]
NoLocals == [data |-> NilBytes, dataErr |-> NoErr]
NoRet == [val |-> NilBytes, keys |-> NilStrs, err |-> NoErr]

\* no mock handle was dialed
NoMock == [dialed |-> FALSE]

\* the shapes a *Lookaside can have: from Dial, a zero struct, one handle
\* missing, or a nil pointer
LookasideShapes ==
    { [isNil |-> FALSE, data |-> TRUE, cache |-> TRUE],
      [isNil |-> FALSE, data |-> FALSE, cache |-> TRUE],
      [isNil |-> FALSE, data |-> TRUE, cache |-> FALSE],
      [isNil |-> FALSE, data |-> FALSE, cache |-> FALSE],
      [isNil |-> TRUE, data |-> FALSE, cache |-> FALSE] }

\* as Undialed, but only the pointer is looked at
Undialed_nilOnly(db) == db.isNil

\* db == nil || db.data == nil || db.cache == nil
Undialed(db) == db.isNil \/ ~db.data \/ ~db.cache

\* the parameters and the result of a Dial; by = "none": the Lookaside was
\* not made by a Dial of this history
NoDial ==
    [by |-> "none", type |-> "", database |-> FALSE, cache |-> FALSE,
     kind |-> "nil", target |-> "none", err |-> NoErr,
     wire |-> [f \in Stores |-> f]]

\* the inner handle that the Lookaside's field holds: db.data, db.cache
Wired(field) == fac.wire[field]

\* no accessor has returned a handle
NoHandles == [c \in Callers |-> "none"]

\* what a history has established.  gone: the keys of a Delete that returned
\* nil, with no Set of the key in flight while it ran or invoked since;
\* written: the value of a Set that returned nil, with no other Set and no
\* Delete of the key in flight while it ran or invoked since; cleanGone,
\* cleanWritten: the same, and no Get of the key was in flight while the
\* Delete or the Set ran
NoFacts == [gone |-> {}, cleanGone |-> {}, written |-> EmptyMap, cleanWritten |-> EmptyMap]

\* on: are histories recorded; committed: the <<key, value>> pairs that a
\* data.Set wrote; now: the facts that hold; start: per caller, the facts
\* that held when its call began and that no later call has undone;
\* atBegin, since: per caller, the operations on its call's key that were in
\* flight when the call began, and that began since; quiet: the callers
\* whose call began when no other call was in flight
NoHist ==
    [on |-> FALSE, committed |-> {}, now |-> NoFacts,
     start |-> [c \in Callers |-> NoFacts],
     atBegin |-> [c \in Callers |-> {}], since |-> [c \in Callers |-> {}],
     quiet |-> {}]

\* the callers with a composite call in flight
InFlight == {c \in Callers : pc[c] \notin {"idle", "done", "off"}}

\* the facts f that the invocation of op on key leaves standing
Forget(f, op, key) ==
    [gone |-> IF op = "Set" THEN f.gone \ {key} ELSE f.gone,
     cleanGone |-> IF op = "Set" THEN f.cleanGone \ {key} ELSE f.cleanGone,
     written |-> IF op \in {"Set", "Delete"} THEN MapDel(f.written, key) ELSE f.written,
     cleanWritten |-> IF op \in {"Set", "Delete"} THEN MapDel(f.cleanWritten, key)
                      ELSE f.cleanWritten]

\* the history after caller c invoked op on key
HistAfterCall(h, c, op, key) ==
    IF ~h.on THEN h
    ELSE LET others == InFlight \ {c}
             same == {d \in others : call[d].key = key}
             facts == Forget(h.now, op, key)
         IN  [on |-> TRUE,
              committed |-> h.committed,
              now |-> facts,
              start |-> [d \in Callers |->
                           IF d = c THEN facts ELSE Forget(h.start[d], op, key)],
              atBegin |-> [h.atBegin EXCEPT ![c] = {call[d].op : d \in same}],
              since |-> [d \in Callers |->
                           IF d = c THEN {}
                           ELSE IF d \in same THEN h.since[d] \cup {op}
                           ELSE h.since[d]],
              quiet |-> IF others = {} THEN h.quiet \cup {c} ELSE h.quiet \ {c}]

\* the history after an inner call of caller c, whose composite call goes
\* on or returns as d says
HistAfterStep(h, c, s, method, key, data, o, d) ==
    IF ~h.on THEN h
    ELSE LET cl == call[c]
             seen == h.atBegin[c] \cup h.since[c]
             ok == d.next = "done" /\ d.err = NoErr
             f == h.now
             facts ==
                 IF ok /\ cl.op = "Delete"
                 THEN [f EXCEPT
                         !.gone = IF "Set" \notin seen
                                  THEN @ \cup {cl.key} ELSE @,
                         !.cleanGone = IF seen \cap {"Get", "Set"} = {}
                                       THEN @ \cup {cl.key} ELSE @]
                 ELSE IF ok /\ cl.op = "Set"
                 THEN [f EXCEPT
                         !.written = IF seen \cap {"Set", "Delete"} = {}
                                     THEN MapPut(@, cl.key, cl.data) ELSE @,
                         !.cleanWritten = IF seen \cap {"Get", "Set", "Delete"} = {}
                                          THEN MapPut(@, cl.key, cl.data) ELSE @]
                 ELSE f
         IN  [h EXCEPT
                !.committed = IF s = "data" /\ method = "Set" /\ o.err = NoErr
                              THEN @ \cup {<<key, data>>} ELSE @,
                !.now = facts]

InitWith(active) ==
    /\ lk \in LookasideShapes
    /\ fac = NoDial
    /\ expect = EmptyMap
    /\ live = {}
    /\ unsynced = EmptyMap
    /\ mock = NoMock
    /\ got = NoHandles
    /\ hist = NoHist
    /\ store = [s \in Stores |-> HashmapDial]
    /\ pc = [c \in Callers |-> IF c \in active THEN "idle" ELSE "off"]
    /\ call = [c \in Callers |-> NoCall]
    /\ locals = [c \in Callers |-> NoLocals]
    /\ ret = [c \in Callers |-> NoRet]
    /\ log = [c \in Callers |-> <<>>]
    /\ pre = [c \in Callers |-> [s \in Stores |-> HashmapDial]]
    /\ anyFault = FALSE
    /\ ncalls = 0

\* one caller: composite calls follow one another
Init == InitWith({"c1"})

----------------------------------------------------------------------------
\* What a handler does with the answer of an inner call: return, or go on
\* to its next inner call.

Return(val, keys, err) == [next |-> "done", val |-> val, keys |-> keys, err |-> err]
Goto(label) == [next |-> label, val |-> NilBytes, keys |-> NilStrs, err |-> NoErr]

\* as Get_afterCacheGet, but a cache hit is looked up in the data handle too
Get_afterCacheGet_noFastPath(data, err) ==
    IF err # NoErr /\ ~Is(err, ErrNil) THEN Return(NilBytes, NilStrs, err)
    ELSE Goto("Get_dataGet")

\* as Get_afterCacheGet, but any cache error falls back to the data handle
Get_afterCacheGet_fallback(data, err) ==
    IF err # NoErr THEN Goto("Get_dataGet")
    ELSE Return(data, NilStrs, NoErr)

\* as Get_afterCacheGet, but a hit is written back to the cache
Get_afterCacheGet_refreshHit(data, err) ==
    IF err # NoErr /\ ~Is(err, ErrNil) THEN Return(NilBytes, NilStrs, err)
    ELSE IF ~Is(err, ErrNil) THEN Goto("Get_cacheSet")
    ELSE Goto("Get_dataGet")

\* Lookaside.Get, after db.cache.Get(key) answered (data, err)
Get_afterCacheGet(data, err) ==
    IF err # NoErr /\ ~Is(err, ErrNil) THEN Return(NilBytes, NilStrs, err)
    ELSE IF ~Is(err, ErrNil) THEN Return(data, NilStrs, NoErr)
    ELSE Goto("Get_dataGet")

\* as Get_afterDataGet, but the fetched value is returned without a refill
Get_afterDataGet_noRefill(data, err) ==
    IF err # NoErr THEN Return(NilBytes, NilStrs, err)
    ELSE Return(data, NilStrs, NoErr)

\* as Get_afterDataGet, but an absent key goes on to the refill
Get_afterDataGet_refillAbsent(data, err) ==
    IF err # NoErr /\ ~Is(err, ErrNil) THEN Return(NilBytes, NilStrs, err)
    ELSE Goto("Get_cacheSet")

\* Lookaside.Get, after db.data.Get(key) answered (data, err)
Get_afterDataGet(data, err) ==
    IF err # NoErr THEN Return(NilBytes, NilStrs, err)
    ELSE Goto("Get_cacheSet")

\* as Get_afterCacheSet, but the refill error is returned untagged
Get_afterCacheSet_untagged(data, err) ==
    IF err # NoErr THEN Return(data, NilStrs, err)
    ELSE Return(data, NilStrs, NoErr)

\* as Get_afterCacheSet, but a failed refill is attempted again
Get_afterCacheSet_retry(data, err) ==
    IF err # NoErr THEN Goto("Get_cacheSet")
    ELSE Return(data, NilStrs, NoErr)

\* Lookaside.Get, after db.cache.Set(key, data) answered err
Get_afterCacheSet(data, err) ==
    IF err # NoErr THEN Return(data, NilStrs, Wrap(ErrCacheError, err))
    ELSE Return(data, NilStrs, NoErr)

\* as Set_afterDataSet, but the cache is written whatever the data write did
Set_afterDataSet_always(err) == Goto("Set_cacheSet")

\* as Set_afterDataSet, but the cache is not written
Set_afterDataSet_dataOnly(err) == Return(NilBytes, NilStrs, err)

\* Lookaside.Set, after db.data.Set(key, data) answered err
Set_afterDataSet(err) ==
    IF err # NoErr THEN Return(NilBytes, NilStrs, err)
    ELSE Goto("Set_cacheSet")

\* as Set_afterCacheSet, but a failed cache write is not reported
Set_afterCacheSet_swallow(err) == Return(NilBytes, NilStrs, NoErr)

\* as Set_afterCacheSet, but a failed cache write is attempted again
Set_afterCacheSet_retry(err) ==
    IF err # NoErr THEN Goto("Set_cacheSet")
    ELSE Return(NilBytes, NilStrs, NoErr)

\* Lookaside.Set, after db.cache.Set(key, data) answered err
Set_afterCacheSet(err) ==
    IF err # NoErr THEN Return(NilBytes, NilStrs, err)
    ELSE Return(NilBytes, NilStrs, NoErr)

\* as Delete_result, but only the data handle's error is looked at
Delete_result_dataOnly(dataErr, cacheErr) ==
    IF dataErr # NoErr THEN Return(NilBytes, NilStrs, dataErr)
    ELSE Return(NilBytes, NilStrs, NoErr)

\* as Delete_afterDataDelete, but the cache is left alone
Delete_afterDataDelete_dataOnly(dataErr) == Return(NilBytes, NilStrs, dataErr)

\* Lookaside.Delete, after db.data.Delete(key) answered dataErr
Delete_afterDataDelete(dataErr) == Goto("Delete_cacheDelete")

\* as Delete_result, but the cache's error comes first
Delete_result_cacheFirst(dataErr, cacheErr) ==
    IF cacheErr # NoErr THEN Return(NilBytes, NilStrs, cacheErr)
    ELSE IF dataErr # NoErr THEN Return(NilBytes, NilStrs, dataErr)
    ELSE Return(NilBytes, NilStrs, NoErr)

\* Lookaside.Delete, with both answers
Delete_result(dataErr, cacheErr) ==
    IF dataErr # NoErr THEN Return(NilBytes, NilStrs, dataErr)
    ELSE IF cacheErr # NoErr THEN Return(NilBytes, NilStrs, cacheErr)
    ELSE Return(NilBytes, NilStrs, NoErr)

\* as HealthCheck_afterData, but a failed data check returns at once
HealthCheck_afterData_shortCircuit(dataErr) ==
    IF dataErr # NoErr THEN Return(NilBytes, NilStrs, dataErr)
    ELSE Goto("HealthCheck_cache")

\* Lookaside.HealthCheck, after db.data.HealthCheck() answered dataErr
HealthCheck_afterData(dataErr) == Goto("HealthCheck_cache")

\* Lookaside.HealthCheck, with both answers
HealthCheck_result(dataErr, cacheErr) ==
    IF dataErr # NoErr THEN Return(NilBytes, NilStrs, dataErr)
    ELSE IF cacheErr # NoErr THEN Return(NilBytes, NilStrs, cacheErr)
    ELSE Return(NilBytes, NilStrs, NoErr)

\* as Setup_afterData, but the cache is set up whatever the data setup did
Setup_afterData_always(err) == Goto("Setup_cache")

\* Lookaside.Setup, after db.data.Setup() and after db.cache.Setup()
Setup_afterData(err) ==
    IF err # NoErr THEN Return(NilBytes, NilStrs, err)
    ELSE Goto("Setup_cache")

Setup_afterCache(err) ==
    IF err # NoErr THEN Return(NilBytes, NilStrs, err)
    ELSE Return(NilBytes, NilStrs, NoErr)

\* as Keys_handle, but the keys come from the cache handle
Keys_handle_cache == "cache"

\* Lookaside.Keys asks the data handle, Lookaside.CacheKeys the cache handle
Keys_handle == "data"
CacheKeys_handle == "cache"
Keys_result(keys, err) == Return(NilBytes, keys, err)

\* as FirstStep, but Set and Delete begin at the cache handle
FirstStep_cacheFirst(op) ==
    CASE op = "Setup" -> "Setup_data"
      [] op = "HealthCheck" -> "HealthCheck_data"
      [] op = "Get" -> "Get_cacheGet"
      [] op = "Set" -> "Set_cacheSet"
      [] op = "Delete" -> "Delete_cacheDelete"
      [] op = "Keys" -> "Keys_keys"
      [] op = "CacheKeys" -> "CacheKeys_keys"
      [] op = "Close" -> "Close_data"

\* the first inner call of each operation on a dialed Lookaside
FirstStep(op) ==
    CASE op = "Setup" -> "Setup_data"
      [] op = "HealthCheck" -> "HealthCheck_data"
      [] op = "Get" -> "Get_cacheGet"
      [] op = "Set" -> "Set_dataSet"
      [] op = "Delete" -> "Delete_dataDelete"
      [] op = "Keys" -> "Keys_keys"
      [] op = "CacheKeys" -> "CacheKeys_keys"
      [] op = "Close" -> "Close_data"

\* what each operation answers on an undialed Lookaside
UndialedResult(op) ==
    IF op = "Close" THEN Return(NilBytes, NilStrs, NoErr)
    ELSE Return(NilBytes, NilStrs, ErrNoDial)

----------------------------------------------------------------------------
\* Actions

\* what is known of the stored values after the call cl returned err
ExpectAfter(e, cl, err) ==
    CASE cl.op = "Set" /\ err = NoErr -> MapPut(e, cl.key, cl.data)
      [] cl.op = "Set" /\ err # NoErr -> MapDel(e, cl.key)
      [] cl.op = "Delete" -> MapDel(e, cl.key)
      [] cl.op = "Close" -> EmptyMap
      [] OTHER -> e

\* the committed values the cache may lack, after the call cl, whose inner
\* calls were lg, returned
UnsyncedAfter(u, cl, lg) ==
    CASE cl.op = "Set" /\ Len(lg) = 2 /\ lg[1].err = NoErr /\ lg[2].err # NoErr
              -> MapPut(u, cl.key, cl.data)
      [] cl.op = "Set" /\ ~(Len(lg) = 2 /\ lg[1].err = NoErr /\ lg[2].err # NoErr)
              -> MapDel(u, cl.key)
      [] cl.op = "Delete" -> MapDel(u, cl.key)
      [] cl.op = "Close" -> EmptyMap
      [] OTHER -> u

Entry(s, method, key, data, o) ==
    [store |-> s, method |-> method, key |-> key, data |-> data,
     val |-> o.val, keys |-> o.keys, err |-> o.err, fault |-> o.fault]

\* caller c's inner call method(key, data) on handle s is answered by o,
\* and the handler decides d
Step(c, s, method, key, data, o, d) ==
    /\ store' = [store EXCEPT ![s] = o.st]
    /\ log' = [log EXCEPT ![c] = Append(@, Entry(s, method, key, data, o))]
    /\ anyFault' = (anyFault \/ o.fault)
    /\ pc' = [pc EXCEPT ![c] = d.next]
    /\ ret' = [ret EXCEPT ![c] = [val |-> d.val, keys |-> d.keys, err |-> d.err]]
    /\ expect' = IF d.next = "done" THEN ExpectAfter(expect, call[c], d.err) ELSE expect
    /\ unsynced' = IF d.next = "done"
                   THEN UnsyncedAfter(unsynced, call[c],
                                      Append(log[c], Entry(s, method, key, data, o)))
                   ELSE unsynced
    /\ hist' = HistAfterStep(hist, c, s, method, key, data, o, d)
    /\ UNCHANGED <<lk, call, pre, ncalls, fac, live, mock, got>>

\* a caller begins a composite call; the handler checks that it was dialed
Call(c) ==
    /\ pc[c] \in {"idle", "done"}
    /\ ncalls < MaxCalls
    /\ ncalls' = ncalls + 1
    /\ \E op \in Ops : \E key \in ArgKeys(op) : \E data \in ArgData(op) :
          /\ call' = [call EXCEPT ![c] = [op |-> op, key |-> key, data |-> data]]
          /\ hist' = HistAfterCall(hist, c, op, key)
          /\ LET d == IF Undialed(lk) THEN UndialedResult(op) ELSE Goto(FirstStep(op))
             IN /\ pc' = [pc EXCEPT ![c] = d.next]
                /\ ret' = [ret EXCEPT ![c] = [val |-> d.val, keys |-> d.keys, err |-> d.err]]
    /\ locals' = [locals EXCEPT ![c] = NoLocals]
    /\ log' = [log EXCEPT ![c] = <<>>]
    /\ pre' = [pre EXCEPT ![c] = store]
    /\ UNCHANGED <<lk, store, anyFault, fac, expect, live, unsynced, mock, got>>

Get_cacheGet(c) ==
    /\ pc[c] = "Get_cacheGet"
    /\ \E o \in Inner(store[Wired("cache")], Wired("cache"), "Get", call[c].key, NilBytes) :
          /\ Step(c, Wired("cache"), "Get", call[c].key, NilBytes, o,
               Get_afterCacheGet(o.val, o.err))
          /\ locals' = [locals EXCEPT ![c].data = o.val]

Get_dataGet(c) ==
    /\ pc[c] = "Get_dataGet"
    /\ \E o \in Inner(store[Wired("data")], Wired("data"), "Get", call[c].key, NilBytes) :
          /\ Step(c, Wired("data"), "Get", call[c].key, NilBytes, o, Get_afterDataGet(o.val, o.err))
          /\ locals' = [locals EXCEPT ![c].data = o.val]

Get_cacheSet(c) ==
    /\ pc[c] = "Get_cacheSet"
    /\ \E o \in Inner(store[Wired("cache")], Wired("cache"), "Set", call[c].key, locals[c].data) :
          /\ Step(c, Wired("cache"), "Set", call[c].key, locals[c].data, o,
                  Get_afterCacheSet(locals[c].data, o.err))
          /\ UNCHANGED locals

\* as Set_dataSet, but a Set waits while another caller's Set is between
\* its two writes
Set_dataSet_locked(c) ==
    /\ pc[c] = "Set_dataSet"
    /\ \A d \in Callers \ {c} : pc[d] # "Set_cacheSet"
    /\ \E o \in Inner(store[Wired("data")], Wired("data"), "Set", call[c].key, call[c].data) :
          /\ Step(c, Wired("data"), "Set", call[c].key, call[c].data, o, Set_afterDataSet(o.err))
          /\ UNCHANGED locals

Set_dataSet(c) ==
    /\ pc[c] = "Set_dataSet"
    /\ \E o \in Inner(store[Wired("data")], Wired("data"), "Set", call[c].key, call[c].data) :
          /\ Step(c, Wired("data"), "Set", call[c].key, call[c].data, o, Set_afterDataSet(o.err))
          /\ UNCHANGED locals

Set_cacheSet(c) ==
    /\ pc[c] = "Set_cacheSet"
    /\ \E o \in Inner(store[Wired("cache")], Wired("cache"), "Set", call[c].key, call[c].data) :
          /\ Step(c, Wired("cache"), "Set", call[c].key, call[c].data, o, Set_afterCacheSet(o.err))
          /\ UNCHANGED locals

Delete_dataDelete(c) ==
    /\ pc[c] = "Delete_dataDelete"
    /\ \E o \in Inner(store[Wired("data")], Wired("data"), "Delete", call[c].key, NilBytes) :
          /\ Step(c, Wired("data"), "Delete", call[c].key, NilBytes, o,
               Delete_afterDataDelete(o.err))
          /\ locals' = [locals EXCEPT ![c].dataErr = o.err]

Delete_cacheDelete(c) ==
    /\ pc[c] = "Delete_cacheDelete"
    /\ \E o \in Inner(store[Wired("cache")], Wired("cache"), "Delete", call[c].key, NilBytes) :
          /\ Step(c, Wired("cache"), "Delete", call[c].key, NilBytes, o,
                  Delete_result(locals[c].dataErr, o.err))
          /\ UNCHANGED locals

HealthCheck_data(c) ==
    /\ pc[c] = "HealthCheck_data"
    /\ \E o \in Inner(store[Wired("data")], Wired("data"), "HealthCheck", <<>>, NilBytes) :
          /\ Step(c, Wired("data"), "HealthCheck", <<>>, NilBytes, o, HealthCheck_afterData(o.err))
          /\ locals' = [locals EXCEPT ![c].dataErr = o.err]

HealthCheck_cache(c) ==
    /\ pc[c] = "HealthCheck_cache"
    /\ \E o \in Inner(store[Wired("cache")], Wired("cache"), "HealthCheck", <<>>, NilBytes) :
          /\ Step(c, Wired("cache"), "HealthCheck", <<>>, NilBytes, o,
                  HealthCheck_result(locals[c].dataErr, o.err))
          /\ UNCHANGED locals

Setup_data(c) ==
    /\ pc[c] = "Setup_data"
    /\ \E o \in Inner(store[Wired("data")], Wired("data"), "Setup", <<>>, NilBytes) :
          /\ Step(c, Wired("data"), "Setup", <<>>, NilBytes, o, Setup_afterData(o.err))
          /\ UNCHANGED locals

Setup_cache(c) ==
    /\ pc[c] = "Setup_cache"
    /\ \E o \in Inner(store[Wired("cache")], Wired("cache"), "Setup", <<>>, NilBytes) :
          /\ Step(c, Wired("cache"), "Setup", <<>>, NilBytes, o, Setup_afterCache(o.err))
          /\ UNCHANGED locals

Keys_keys(c) ==
    /\ pc[c] = "Keys_keys"
    /\ \E o \in Inner(store[Wired(Keys_handle)], Wired(Keys_handle), "Keys", <<>>, NilBytes) :
          /\ Step(c, Wired(Keys_handle), "Keys", <<>>, NilBytes, o, Keys_result(o.keys, o.err))
          /\ UNCHANGED locals

CacheKeys_keys(c) ==
    /\ pc[c] = "CacheKeys_keys"
    /\ \E o \in Inner(store[Wired(CacheKeys_handle)], Wired(CacheKeys_handle),
                   "Keys", <<>>, NilBytes) :
          /\ Step(c, Wired(CacheKeys_handle), "Keys", <<>>, NilBytes, o, Keys_result(o.keys, o.err))
          /\ UNCHANGED locals

Close_data(c) ==
    /\ pc[c] = "Close_data"
    /\ \E o \in Inner(store[Wired("data")], Wired("data"), "Close", <<>>, NilBytes) :
          /\ Step(c, Wired("data"), "Close", <<>>, NilBytes, o, Goto("Close_cache"))
          /\ UNCHANGED locals

Close_cache(c) ==
    /\ pc[c] = "Close_cache"
    /\ \E o \in Inner(store[Wired("cache")], Wired("cache"), "Close", <<>>, NilBytes) :
          /\ Step(c, Wired("cache"), "Close", <<>>, NilBytes, o, Return(NilBytes, NilStrs, NoErr))
          /\ UNCHANGED locals

Next ==
    \E c \in Callers :
        \/ Call(c)
        \/ Get_cacheGet(c) \/ Get_dataGet(c) \/ Get_cacheSet(c)
        \/ Set_dataSet(c) \/ Set_cacheSet(c)
        \/ Delete_dataDelete(c) \/ Delete_cacheDelete(c)
        \/ HealthCheck_data(c) \/ HealthCheck_cache(c)
        \/ Setup_data(c) \/ Setup_cache(c)
        \/ Keys_keys(c) \/ CacheKeys_keys(c)
        \/ Close_data(c) \/ Close_cache(c)

Spec == Init /\ [][Next]_vars

\* two callers share one dialed Lookaside; their composite calls run
\* concurrently, each inner call being one step of the hashmap driver under
\* its own lock
InitConcurrent ==
    /\ InitWith(Callers)
    /\ lk = [isNil |-> FALSE, data |-> TRUE, cache |-> TRUE]

\* each of the callers makes one call
ConcurrentCall(c) ==
    /\ pc[c] = "idle"
    /\ Call(c)

NextConcurrent ==
    \E c \in Callers :
        \/ ConcurrentCall(c)
        \/ Get_cacheGet(c) \/ Get_dataGet(c) \/ Get_cacheSet(c)
        \/ Set_dataSet(c) \/ Set_cacheSet(c)
        \/ Delete_dataDelete(c) \/ Delete_cacheDelete(c)
        \/ HealthCheck_data(c) \/ HealthCheck_cache(c)
        \/ Setup_data(c) \/ Setup_cache(c)
        \/ Keys_keys(c) \/ CacheKeys_keys(c)
        \/ Close_data(c) \/ Close_cache(c)

SpecConcurrent == InitConcurrent /\ [][NextConcurrent]_vars

----------------------------------------------------------------------------
\* The Cache driver of drivers/cache/cache.go: the composite before it
\* became Lookaside.  Its Dial returns a Cache only with both handles, its
\* methods have no check for a missing handle and there is no CacheKeys;
\* Setup, HealthCheck, Set, Delete, Keys and Close make the inner calls of
\* their Lookaside namesakes, and so does Get up to its write to the cache.

CacheOps == {"Setup", "HealthCheck", "Get", "Set", "Delete", "Keys", "Close"}

\* Cache.Get, after db.cache.Set(key, data), whose result is not looked at
CacheGet_afterCacheSet(data, err) == Return(data, NilStrs, NoErr)

CacheGet_cacheSet(c) ==
    /\ pc[c] = "Get_cacheSet"
    /\ \E o \in Inner(store[Wired("cache")], Wired("cache"), "Set", call[c].key, locals[c].data) :
          /\ Step(c, Wired("cache"), "Set", call[c].key, locals[c].data, o,
                  CacheGet_afterCacheSet(locals[c].data, o.err))
          /\ UNCHANGED locals

\* a caller begins a call on the Cache
Cache_Call(c) ==
    /\ Call(c)
    /\ call'[c].op \in CacheOps

InitCache ==
    /\ InitWith({"c1"})
    /\ lk = [isNil |-> FALSE, data |-> TRUE, cache |-> TRUE]

NextCache ==
    \E c \in Callers :
        \/ Cache_Call(c)
        \/ Get_cacheGet(c) \/ Get_dataGet(c) \/ CacheGet_cacheSet(c)
        \/ Set_dataSet(c) \/ Set_cacheSet(c)
        \/ Delete_dataDelete(c) \/ Delete_cacheDelete(c)
        \/ HealthCheck_data(c) \/ HealthCheck_cache(c)
        \/ Setup_data(c) \/ Setup_cache(c)
        \/ Keys_keys(c)
        \/ Close_data(c) \/ Close_cache(c)

SpecCache == InitCache /\ [][NextCache]_vars

----------------------------------------------------------------------------
\* The cache factory (package cache) and the handles it returns

ErrInvalidDatabase == <<"ErrInvalidDatabase">>
ErrNoType == <<"ErrNoType">>

\* the values of cache.Type given to Dial: Lookaside, None, unset, unknown
TypeLookaside == "lookaside"
TypeNone == "none"
CacheTypes == {TypeLookaside, TypeNone, "", "writethrough"}

\* what a Dial returns: no handle, a Lookaside, or the handle named target
DialResult(kind, target, err) == [kind |-> kind, target |-> target, err |-> err]

\* as LookasideFields, but the two handles change places
LookasideFields_swapped(Database, Cache) == [data |-> Cache, cache |-> Database]

\* &Lookaside{data: cfg.Database, cache: cfg.Cache}: the handle in each field
LookasideFields(Database, Cache) == [data |-> Database, cache |-> Cache]

\* lookaside.Config{Database: cfg.Database, Cache: cfg.Cache} in cache.Dial
CacheDialConfig(Database, Cache) == [Database |-> Database, Cache |-> Cache]

\* the fields of the Lookaside that Dial made of the handles "data" (given
\* as Database) and "cache" (given as Cache)
DialWiring(by) ==
    IF by = "cache.Dial"
    THEN LET cfg == CacheDialConfig("data", "cache")
         IN  LookasideFields(cfg.Database, cfg.Cache)
    ELSE LookasideFields("data", "cache")

\* lookaside.Dial(Config{Database, Cache}), each handle given or nil
LookasideDial(database, cache) ==
    IF ~database \/ ~cache THEN DialResult("nil", "none", ErrInvalidDatabase)
    ELSE DialResult("lookaside", "none", NoErr)

\* as CacheDial, but the type is looked at before the handles
CacheDial_typeFirst(type, database, cache) ==
    IF type \notin {TypeLookaside, TypeNone} THEN DialResult("nil", "none", ErrNoType)
    ELSE IF ~database \/ ~cache THEN DialResult("nil", "none", ErrInvalidDatabase)
    ELSE IF type = TypeLookaside THEN LookasideDial(database, cache)
    ELSE DialResult("database", "data", NoErr)

\* as CacheDial, but an unknown type gets the look-aside strategy
CacheDial_default(type, database, cache) ==
    IF ~database \/ ~cache THEN DialResult("nil", "none", ErrInvalidDatabase)
    ELSE IF type = TypeNone THEN DialResult("database", "data", NoErr)
    ELSE LookasideDial(database, cache)

\* as CacheDial, but None hands out the Cache handle
CacheDial_cacheHandle(type, database, cache) ==
    IF ~database \/ ~cache THEN DialResult("nil", "none", ErrInvalidDatabase)
    ELSE IF type = TypeLookaside THEN LookasideDial(database, cache)
    ELSE IF type = TypeNone THEN DialResult("database", "cache", NoErr)
    ELSE DialResult("nil", "none", ErrNoType)

\* cache.Dial(Config{CacheType, Database, Cache})
CacheDial(type, database, cache) ==
    IF ~database \/ ~cache THEN DialResult("nil", "none", ErrInvalidDatabase)
    ELSE IF type = TypeLookaside THEN LookasideDial(database, cache)
    ELSE IF type = TypeNone THEN DialResult("database", "data", NoErr)
    ELSE DialResult("nil", "none", ErrNoType)

\* the methods of hord.Database
DatabaseOps == {"Setup", "HealthCheck", "Get", "Set", "Delete", "Keys", "Close"}

NilLookaside == [isNil |-> TRUE, data |-> FALSE, cache |-> FALSE]
DialedLookaside == [isNil |-> FALSE, data |-> TRUE, cache |-> TRUE]

\* nothing is dialed yet; the two inner handles are fresh hashmap handles
InitFactory ==
    /\ lk = NilLookaside
    /\ fac = NoDial
    /\ store = [s \in Stores |-> HashmapDial]
    /\ pc = [c \in Callers |-> IF c = "c1" THEN "nodial" ELSE "off"]
    /\ call = [c \in Callers |-> NoCall]
    /\ locals = [c \in Callers |-> NoLocals]
    /\ ret = [c \in Callers |-> NoRet]
    /\ log = [c \in Callers |-> <<>>]
    /\ pre = [c \in Callers |-> [s \in Stores |-> HashmapDial]]
    /\ anyFault = FALSE
    /\ ncalls = 0
    /\ expect = EmptyMap
    /\ live = {}
    /\ unsynced = EmptyMap
    /\ mock = NoMock
    /\ got = NoHandles
    /\ hist = NoHist

\* the callers get the handle r that Dial returned
Dialed(by, type, database, cache, r) ==
    /\ fac' = [by |-> by, type |-> type, database |-> database, cache |-> cache,
               kind |-> r.kind, target |-> r.target, err |-> r.err,
               wire |-> IF r.kind = "lookaside" THEN DialWiring(by) ELSE fac.wire]
    /\ lk' = IF r.kind = "lookaside" THEN DialedLookaside ELSE NilLookaside
    /\ pc' = [c \in Callers |->
                IF pc[c] # "nodial" THEN pc[c]
                ELSE IF r.kind = "lookaside" THEN "idle"
                ELSE IF r.kind = "database" THEN "direct"
                ELSE "nohandle"]
    /\ UNCHANGED <<store, call, locals, ret, log, pre, anyFault, ncalls, expect, live,
                   unsynced, mock, got, hist>>

Cache_Dial ==
    /\ fac.by = "none"
    /\ \E type \in CacheTypes : \E database \in BOOLEAN : \E cache \in BOOLEAN :
          Dialed("cache.Dial", type, database, cache, CacheDial(type, database, cache))

Lookaside_Dial ==
    /\ fac.by = "none"
    /\ \E database \in BOOLEAN : \E cache \in BOOLEAN :
          Dialed("lookaside.Dial", TypeLookaside, database, cache,
                 LookasideDial(database, cache))

\* the keys Set and not Deleted, after the call cl on the bare handle
\* returned err
LiveAfter(l, cl, err) ==
    IF err # NoErr THEN l
    ELSE IF cl.op = "Set" THEN l \cup {cl.key}
    ELSE IF cl.op = "Delete" THEN l \ {cl.key}
    ELSE l

\* a call on the handle that the factory handed out unwrapped: the method
\* of that inner handle runs, and its answer is the call's result
DirectCall(c) ==
    /\ pc[c] \in {"direct", "ddone"}
    /\ ncalls < MaxCalls
    /\ ncalls' = ncalls + 1
    /\ \E op \in DatabaseOps : \E key \in ArgKeys(op) : \E data \in ArgData(op) :
       \E o \in Inner(store[fac.target], fac.target, op, key, data) :
          LET cl == [op |-> op, key |-> key, data |-> data]
          IN /\ call' = [call EXCEPT ![c] = cl]
             /\ store' = [store EXCEPT ![fac.target] = o.st]
             /\ log' = [log EXCEPT ![c] = <<Entry(fac.target, op, key, data, o)>>]
             /\ ret' = [ret EXCEPT ![c] = [val |-> o.val, keys |-> o.keys, err |-> o.err]]
             /\ anyFault' = (anyFault \/ o.fault)
             /\ expect' = ExpectAfter(expect, cl, o.err)
             /\ live' = LiveAfter(live, cl, o.err)
             /\ unsynced' = UnsyncedAfter(unsynced, cl, <<Entry(fac.target, op, key, data, o)>>)
    /\ pc' = [pc EXCEPT ![c] = "ddone"]
    /\ locals' = [locals EXCEPT ![c] = NoLocals]
    /\ pre' = [pre EXCEPT ![c] = store]
    /\ UNCHANGED <<lk, fac, mock, got, hist>>

NextFactory ==
    \/ Cache_Dial
    \/ Lookaside_Dial
    \/ \E c \in Callers : DirectCall(c)
    \/ Next

\* a handle is dialed, by the factory or by lookaside.Dial, and then used
SpecFactory == InitFactory /\ [][NextFactory]_vars

----------------------------------------------------------------------------
\* The mock driver (package mock) with the functions it is dialed with.  A
\* function is [set, f]: set is FALSE for a nil function; f is what the
\* function answers, for each argument it takes.

Answer(val, keys, err) == [val |-> val, keys |-> keys, err |-> err]

\* func() error
ErrorFuncs ==
    {[set |-> FALSE, f |-> NoErr]} \cup
    {[set |-> TRUE, f |-> ErrDatabaseTest]}

\* func(string) ([]byte, error): one key has a value, the others are absent
GetFuncs ==
    {[set |-> FALSE, f |-> [k \in KeyArgs |-> Answer(NilBytes, NilStrs, NoErr)]]} \cup
    {[set |-> TRUE,
      f |-> [k \in KeyArgs |-> IF k = h THEN Answer(Bytes(<<1>>), NilStrs, NoErr)
                                         ELSE Answer(NilBytes, NilStrs, ErrNil)]] :
        h \in KeyArgs}

\* func(string, []byte) error: one key can be written, with non-empty data
SetFuncs ==
    {[set |-> FALSE, f |-> [a \in KeyArgs \X DataArgs |-> NoErr]]} \cup
    {[set |-> TRUE,
      f |-> [a \in KeyArgs \X DataArgs |->
                IF a[1] # <<1>> THEN ErrDatabaseTest
                ELSE IF BytesLen(a[2]) > 0 THEN NoErr ELSE ErrInvalidData]]}

\* func(string) error
DeleteFuncs ==
    {[set |-> FALSE, f |-> [k \in KeyArgs |-> NoErr]]} \cup
    {[set |-> TRUE, f |-> [k \in KeyArgs |-> IF k = <<1>> THEN NoErr ELSE ErrDatabaseTest]]}

\* func() ([]string, error)
KeysFuncs ==
    {[set |-> FALSE, f |-> Answer(NilBytes, NilStrs, NoErr)]} \cup
    {[set |-> TRUE, f |-> Answer(NilBytes, Strs(<< <<1>> >>), NoErr)],
     [set |-> TRUE, f |-> Answer(NilBytes, NilStrs, ErrDatabaseTest)]}

MockConfigs ==
    [SetupFunc : ErrorFuncs, HealthCheckFunc : ErrorFuncs, GetFunc : GetFuncs,
     SetFunc : SetFuncs, DeleteFunc : DeleteFuncs, KeysFunc : KeysFuncs]

\* as MockDial, but the Delete function is not taken over
MockDial_noDelete(c) ==
    [db |-> [setupFunc |-> c.SetupFunc, healthCheckFunc |-> c.HealthCheckFunc,
             getFunc |-> c.GetFunc, setFunc |-> c.SetFunc,
             deleteFunc |-> [set |-> FALSE, f |-> [k \in KeyArgs |-> NoErr]],
             keysFunc |-> c.KeysFunc],
     err |-> NoErr]

MockDial(c) ==
    [db |-> [setupFunc |-> c.SetupFunc, healthCheckFunc |-> c.HealthCheckFunc,
             getFunc |-> c.GetFunc, setFunc |-> c.SetFunc,
             deleteFunc |-> c.DeleteFunc, keysFunc |-> c.KeysFunc],
     err |-> NoErr]

MockSetup(db) ==
    IF db.setupFunc.set THEN Answer(NilBytes, NilStrs, db.setupFunc.f)
    ELSE Answer(NilBytes, NilStrs, NoErr)

MockHealthCheck(db) ==
    IF db.healthCheckFunc.set THEN Answer(NilBytes, NilStrs, db.healthCheckFunc.f)
    ELSE Answer(NilBytes, NilStrs, NoErr)

MockGet(db, key) ==
    IF db.getFunc.set THEN db.getFunc.f[key]
    ELSE Answer(EmptyBytes, NilStrs, NoErr)

MockSet(db, key, data) ==
    IF db.setFunc.set THEN Answer(NilBytes, NilStrs, db.setFunc.f[<<key, data>>])
    ELSE Answer(NilBytes, NilStrs, NoErr)

MockDelete(db, key) ==
    IF db.deleteFunc.set THEN Answer(NilBytes, NilStrs, db.deleteFunc.f[key])
    ELSE Answer(NilBytes, NilStrs, NoErr)

MockKeys(db) ==
    IF db.keysFunc.set THEN db.keysFunc.f
    ELSE Answer(NilBytes, EmptyStrs, NoErr)

\* Close returns nothing and does nothing
MockClose(db) == db

MockMethod(db, op, key, data) ==
    CASE op = "Setup" -> MockSetup(db)
      [] op = "HealthCheck" -> MockHealthCheck(db)
      [] op = "Get" -> MockGet(db, key)
      [] op = "Set" -> MockSet(db, key, data)
      [] op = "Delete" -> MockDelete(db, key)
      [] op = "Keys" -> MockKeys(db)
      [] op = "Close" -> Answer(NilBytes, NilStrs, NoErr)

InitMock ==
    /\ lk = [isNil |-> TRUE, data |-> FALSE, cache |-> FALSE]
    /\ fac = NoDial
    /\ mock = NoMock
    /\ got = NoHandles
    /\ hist = NoHist
    /\ store = [s \in Stores |-> HashmapDial]
    /\ pc = [c \in Callers |-> IF c = "c1" THEN "nomock" ELSE "off"]
    /\ call = [c \in Callers |-> NoCall]
    /\ locals = [c \in Callers |-> NoLocals]
    /\ ret = [c \in Callers |-> NoRet]
    /\ log = [c \in Callers |-> <<>>]
    /\ pre = [c \in Callers |-> [s \in Stores |-> HashmapDial]]
    /\ anyFault = FALSE
    /\ ncalls = 0
    /\ expect = EmptyMap
    /\ live = {}
    /\ unsynced = EmptyMap

Mock_Dial ==
    /\ ~mock.dialed
    /\ \E c \in MockConfigs :
          mock' = [dialed |-> TRUE, cfg |-> c, db |-> MockDial(c).db, err |-> MockDial(c).err]
    /\ pc' = [c \in Callers |-> IF pc[c] = "nomock" THEN "mock" ELSE pc[c]]
    /\ UNCHANGED <<lk, store, call, locals, ret, log, pre, anyFault, ncalls, fac, expect,
                   live, unsynced, got, hist>>

\* a call of a method of the mock handle
Mock_Call(c) ==
    /\ pc[c] \in {"mock", "mdone"}
    /\ ncalls < MaxCalls
    /\ ncalls' = ncalls + 1
    /\ \E op \in DatabaseOps : \E key \in ArgKeys(op) : \E data \in ArgData(op) :
          /\ call' = [call EXCEPT ![c] = [op |-> op, key |-> key, data |-> data]]
          /\ ret' = [ret EXCEPT ![c] = MockMethod(mock.db, op, key, data)]
          /\ mock' = IF op = "Close" THEN [mock EXCEPT !.db = MockClose(mock.db)] ELSE mock
    /\ pc' = [pc EXCEPT ![c] = "mdone"]
    /\ UNCHANGED <<lk, store, locals, log, pre, anyFault, fac, expect, live, unsynced, got,
                   hist>>

NextMock ==
    \/ Mock_Dial
    \/ \E c \in Callers : Mock_Call(c)

SpecMock == InitMock /\ [][NextMock]_vars

----------------------------------------------------------------------------
\* The accessors of the Lookaside

AccessorOps == {"GetCache", "GetDatabase"}

\* as Accessor_field, but each accessor reads the other field
Accessor_field_swapped(op) == IF op = "GetCache" THEN "data" ELSE "cache"

\* GetCache returns db.cache, GetDatabase returns db.data
Accessor_field(op) == IF op = "GetCache" THEN "cache" ELSE "data"

\* the handle that the field of the Lookaside holds, or nil
FieldValue(field) == IF lk[field] THEN Wired(field) ELSE "nil"

\* GetCache and GetDatabase read the field with no guard: on a nil
\* *Lookaside the read panics
Accessor(c) ==
    /\ pc[c] \in {"idle", "done"}
    /\ ncalls < MaxCalls
    /\ ncalls' = ncalls + 1
    /\ \E op \in AccessorOps :
          /\ call' = [call EXCEPT ![c] = [op |-> op, key |-> <<>>, data |-> NilBytes]]
          /\ IF lk.isNil
             THEN /\ pc' = [pc EXCEPT ![c] = "panicked"]
                  /\ got' = got
             ELSE /\ pc' = [pc EXCEPT ![c] = "done"]
                  /\ got' = [got EXCEPT ![c] = FieldValue(Accessor_field(op))]
    /\ ret' = [ret EXCEPT ![c] = NoRet]
    /\ locals' = [locals EXCEPT ![c] = NoLocals]
    /\ log' = [log EXCEPT ![c] = <<>>]
    /\ pre' = [pre EXCEPT ![c] = store]
    /\ UNCHANGED <<lk, store, anyFault, fac, expect, live, unsynced, mock, hist>>

\* the calls that fill the handles and list the cache
AccessorCall(c) ==
    /\ Call(c)
    /\ call'[c].op \in {"Set", "CacheKeys"}

\* a Lookaside built as a struct, or one that a Dial is going to make
InitAccessors == Init \/ InitFactory

\* the factory runs only where no Lookaside was built yet
Accessors_Dial ==
    /\ \E c \in Callers : pc[c] = "nodial"
    /\ (Cache_Dial \/ Lookaside_Dial)

NextAccessors ==
    \/ Accessors_Dial
    \/ \E c \in Callers :
          \/ AccessorCall(c)
          \/ Accessor(c)
          \/ Set_dataSet(c) \/ Set_cacheSet(c)
          \/ CacheKeys_keys(c)

SpecAccessors == InitAccessors /\ [][NextAccessors]_vars

----------------------------------------------------------------------------
\* Histories of Get, Set, Delete and Keys on a dialed Lookaside

\* a dialed Lookaside whose data handle holds m and whose cache is empty;
\* the history of the callers in active is recorded
InitHist(active, m) ==
    /\ lk = [isNil |-> FALSE, data |-> TRUE, cache |-> TRUE]
    /\ fac = NoDial
    /\ expect = EmptyMap
    /\ live = {}
    /\ unsynced = EmptyMap
    /\ mock = NoMock
    /\ got = NoHandles
    /\ hist = [NoHist EXCEPT !.on = TRUE]
    /\ store = [s \in Stores |-> IF s = "data" THEN [open |-> TRUE, m |-> m] ELSE HashmapDial]
    /\ pc = [c \in Callers |-> IF c \in active THEN "idle" ELSE "off"]
    /\ call = [c \in Callers |-> NoCall]
    /\ locals = [c \in Callers |-> NoLocals]
    /\ ret = [c \in Callers |-> NoRet]
    /\ log = [c \in Callers |-> <<>>]
    /\ pre = [c \in Callers |-> store]
    /\ anyFault = FALSE
    /\ ncalls = 0

HistoryOps == {"Get", "Set", "Delete", "Keys"}

\* one caller, two handles that start empty
InitHistory == InitHist({"c1"}, EmptyMap)

HistoryCall(c) ==
    /\ Call(c)
    /\ call'[c].op \in HistoryOps

NextHistory ==
    \E c \in Callers :
        \/ HistoryCall(c)
        \/ Get_cacheGet(c) \/ Get_dataGet(c) \/ Get_cacheSet(c)
        \/ Set_dataSet(c) \/ Set_cacheSet(c)
        \/ Delete_dataDelete(c) \/ Delete_cacheDelete(c)
        \/ Keys_keys(c)

SpecHistory == InitHistory /\ [][NextHistory]_vars

----------------------------------------------------------------------------
\* Concurrent Get, Set and Delete calls on one Lookaside, no inner call failing

RaceOps == {"Get", "Set", "Delete"}

\* the callers contend for one key, with valid arguments
RaceKey == <<1>>

\* what the data handle holds when it is given to Dial: nothing, or a value
\* stored before; the cache handle is empty
RaceData == {EmptyMap} \cup {MapPut(EmptyMap, RaceKey, v) : v \in StoredVals}

InitRace == \E m \in RaceData : InitHist(Callers, m)

RaceCall(c) ==
    /\ Call(c)
    /\ call'[c].op \in RaceOps
    /\ call'[c].key = RaceKey
    /\ call'[c].op = "Set" => call'[c].data \in StoredVals

\* an inner call that the hashmap handle answers
HashmapStep(c) ==
    /\ \/ Get_cacheGet(c) \/ Get_dataGet(c) \/ Get_cacheSet(c)
       \/ Set_dataSet(c) \/ Set_cacheSet(c)
       \/ Delete_dataDelete(c) \/ Delete_cacheDelete(c)
    /\ ~anyFault'

NextRace ==
    \E c \in Callers :
        \/ RaceCall(c)
        \/ HashmapStep(c)

SpecRace == InitRace /\ [][NextRace]_vars

----------------------------------------------------------------------------
\* Properties of the look-aside driver

Result(val, keys, err) == [val |-> val, keys |-> keys, err |-> err]
Returned(c) == pc[c] = "done"
\* the i-th inner call of caller c's current call was method on handle s
IsCall(c, i, s, method) ==
    /\ Len(log[c]) >= i
    /\ log[c][i].store = s
    /\ log[c][i].method = method
\* the current Get of caller c missed the cache: cache.Get signalled absence
Missed(c) ==
    /\ call[c].op = "Get"
    /\ Len(log[c]) >= 1
    /\ Is(log[c][1].err, ErrNil)

\* C1: cache hit of Get.  When cache.Get(k) answers a value v with no error,
\* Get(k) has returned (v, nil) and that cache.Get is the only inner call of
\* the call: neither data.Get nor cache.Set is invoked.
C1_CacheHit ==
    \A c \in Callers :
        (call[c].op = "Get" /\ Len(log[c]) >= 1 /\ log[c][1].err = NoErr)
        => /\ Returned(c)
           /\ IsCall(c, 1, "cache", "Get")
           /\ log[c][1].key = call[c].key
           /\ Len(log[c]) = 1
           /\ ret[c] = Result(log[c][1].val, NilStrs, NoErr)

\* a Get served from the cache although the data handle would answer that
\* key with an error
C1_Witness ==
    \E c \in Callers :
        /\ Returned(c) /\ call[c].op = "Get"
        /\ Len(log[c]) = 1 /\ log[c][1].err = NoErr
        /\ log[c][1].val \in StoredVals
        /\ ret[c].val = log[c][1].val
        /\ HashmapGet(store["data"], call[c].key).err # NoErr

\* C2: miss then refill.  When cache.Get(k) signals absence and data.Get(k)
\* answers v with no error, Get(k) does not return before it has invoked
\* cache.Set(k, v) with that key and value, and it returns v; when that
\* cache.Set succeeded the cache holds v at k when Get returns, so that to a
\* Get(k) begun there the cache answers (v, nil) and Get returns it without
\* a further inner call.
C2_MissRefill ==
    \A c \in Callers :
        (Missed(c) /\ Len(log[c]) >= 2 /\ log[c][2].err = NoErr /\ Returned(c))
        => /\ IsCall(c, 2, "data", "Get")
           /\ Len(log[c]) = 3
           /\ IsCall(c, 3, "cache", "Set")
           /\ log[c][3].key = call[c].key
           /\ log[c][3].data = log[c][2].val
           /\ ret[c].val = log[c][2].val
           /\ log[c][3].err = NoErr
              => /\ ret[c] = Result(log[c][2].val, NilStrs, NoErr)
                 /\ call[c].key \in DOMAIN store["cache"].m
                 /\ store["cache"].m[call[c].key] = log[c][2].val
                 /\ LET hit == HashmapGet(store["cache"], call[c].key)
                    IN /\ hit.err = NoErr
                       /\ hit.val = log[c][2].val
                       /\ Get_afterCacheGet(hit.val, hit.err)
                             = Return(log[c][2].val, NilStrs, NoErr)

\* a Get that found the key in the data handle only and wrote it to the
\* cache
C2_Witness ==
    \E c \in Callers :
        /\ Returned(c) /\ Missed(c)
        /\ Len(log[c]) = 3 /\ log[c][2].err = NoErr /\ log[c][3].err = NoErr
        /\ log[c][2].val \in StoredVals
        /\ call[c].key \notin DOMAIN pre[c]["cache"].m
        /\ store["cache"].m[call[c].key] = log[c][2].val
        /\ ret[c] = Result(log[c][2].val, NilStrs, NoErr)

\* C3: cache errors are opaque.  When cache.Get(k) fails with an error that
\* is not the absence signal, Get(k) has returned that same error with a
\* nil value, and cache.Get is the only inner call of the call.
C3_CacheErrorOpaque ==
    \A c \in Callers :
        (/\ call[c].op = "Get" /\ Len(log[c]) >= 1
         /\ log[c][1].err # NoErr /\ ~Is(log[c][1].err, ErrNil))
        => /\ Returned(c)
           /\ Len(log[c]) = 1
           /\ ret[c] = Result(NilBytes, NilStrs, log[c][1].err)

\* a Get that returned the cache's error although the data handle holds
\* the key
C3_Witness ==
    \E c \in Callers :
        /\ Returned(c) /\ call[c].op = "Get"
        /\ Len(log[c]) = 1 /\ log[c][1].err = ErrCacheTest
        /\ ret[c].err = ErrCacheTest
        /\ HashmapGet(store["data"], call[c].key).err = NoErr

\* C4: a failed refill is reported.  When the refilling cache.Set(k, v) fails
\* with e, Get returns v and an error that is both ErrCacheError and e; and
\* a Get that missed the cache returns no error only when data.Get and
\* cache.Set both succeeded.
C4_RefillFailure ==
    \A c \in Callers :
        /\ (Missed(c) /\ Len(log[c]) = 3 /\ log[c][3].err # NoErr)
           => /\ Returned(c)
              /\ ret[c].err # NoErr
              /\ ret[c].err = Wrap(ErrCacheError, log[c][3].err)
              /\ Is(ret[c].err, ErrCacheError)
              /\ Is(ret[c].err, log[c][3].err)
              /\ ret[c].val = log[c][2].val
        /\ (Missed(c) /\ Returned(c) /\ ret[c].err = NoErr)
           => /\ Len(log[c]) = 3
              /\ log[c][2].err = NoErr
              /\ log[c][3].err = NoErr

\* a Get whose refill failed and that returned the fetched value
C4_Witness ==
    \E c \in Callers :
        /\ Returned(c) /\ Missed(c)
        /\ Len(log[c]) = 3 /\ log[c][3].err = ErrCacheTest
        /\ log[c][2].val \in StoredVals
        /\ ret[c].val = log[c][2].val

\* C5: the data handle decides absence.  When cache.Get(k) signals absence
\* and data.Get(k) answers any error, ErrNil included, Get(k) has returned
\* that error unchanged with a nil value, cache.Set is not invoked and the
\* cache is as it was when the call began.
C5_DataErrorPropagates ==
    \A c \in Callers :
        (Missed(c) /\ Len(log[c]) >= 2 /\ log[c][2].err # NoErr)
        => /\ Returned(c)
           /\ Len(log[c]) = 2
           /\ ret[c] = Result(NilBytes, NilStrs, log[c][2].err)
           /\ store["cache"] = pre[c]["cache"]

\* a Get of a key that neither handle holds
C5_Witness ==
    \E c \in Callers :
        /\ Returned(c) /\ Missed(c)
        /\ Len(log[c]) = 2 /\ log[c][2].err = ErrNil /\ ~log[c][2].fault
        /\ ret[c].err = ErrNil

\* C6: write ordering of Set.  When data.Set(k, v) fails, Set(k, v) has
\* returned that error, data.Set is the only inner call of the call
\* (cache.Set is not invoked) and the cache is as it was when the call began.
C6_SetDataFirst ==
    \A c \in Callers :
        (call[c].op = "Set" /\ Len(log[c]) >= 1 /\ log[c][1].err # NoErr)
        => /\ Returned(c)
           /\ IsCall(c, 1, "data", "Set")
           /\ Len(log[c]) = 1
           /\ ret[c].err = log[c][1].err
           /\ store["cache"] = pre[c]["cache"]

\* a Set whose data write failed and whose cache write would have succeeded
C6_Witness ==
    \E c \in Callers :
        /\ Returned(c) /\ call[c].op = "Set"
        /\ Len(log[c]) = 1 /\ log[c][1].err = ErrDatabaseTest
        /\ HashmapSet(store["cache"], call[c].key, call[c].data).err = NoErr
        /\ ret[c].err = ErrDatabaseTest

\* C7: no rollback in Set.  When data.Set(k, v) succeeds and cache.Set(k, v)
\* fails, Set returns the cache's error and the data handle holds v at k
\* when Set returns; Set returns no error only when data.Set and cache.Set
\* were both invoked and both succeeded.
C7_SetNoRollback ==
    \A c \in Callers :
        /\ (/\ call[c].op = "Set" /\ Len(log[c]) = 2
            /\ log[c][1].err = NoErr /\ log[c][2].err # NoErr)
           => /\ Returned(c)
              /\ IsCall(c, 2, "cache", "Set")
              /\ log[c][2].key = call[c].key
              /\ log[c][2].data = call[c].data
              /\ ret[c].err = log[c][2].err
              /\ call[c].key \in DOMAIN store["data"].m
              /\ store["data"].m[call[c].key] = call[c].data
        /\ (call[c].op = "Set" /\ Returned(c) /\ ~Undialed(lk) /\ ret[c].err = NoErr)
           => /\ Len(log[c]) = 2
              /\ log[c][1].err = NoErr
              /\ log[c][2].err = NoErr

\* a Set whose cache write failed after the data write changed the data
\* handle
C7_Witness ==
    \E c \in Callers :
        /\ Returned(c) /\ call[c].op = "Set"
        /\ Len(log[c]) = 2 /\ log[c][1].err = NoErr /\ log[c][2].err = ErrCacheTest
        /\ ret[c].err = ErrCacheTest
        /\ store["data"] # pre[c]["data"]
        /\ store["data"].m[call[c].key] = call[c].data

\* C8: Delete asks both handles.  A Delete(k) on a dialed Lookaside returns
\* only after data.Delete(k) and then cache.Delete(k) were invoked, whatever
\* the first answered; it returns data's error if there is one, otherwise
\* cache's error if there is one, otherwise nil.
C8_DeleteBoth ==
    \A c \in Callers :
        (call[c].op = "Delete" /\ Returned(c) /\ ~Undialed(lk))
        => /\ Len(log[c]) = 2
           /\ IsCall(c, 1, "data", "Delete")
           /\ IsCall(c, 2, "cache", "Delete")
           /\ log[c][1].key = call[c].key
           /\ log[c][2].key = call[c].key
           /\ ret[c].err = IF log[c][1].err # NoErr THEN log[c][1].err
                           ELSE log[c][2].err

\* a Delete both of whose inner deletes failed
C8_Witness ==
    \E c \in Callers :
        /\ Returned(c) /\ call[c].op = "Delete"
        /\ Len(log[c]) = 2
        /\ log[c][1].err = ErrDatabaseTest /\ log[c][2].err = ErrCacheTest
        /\ ret[c].err = ErrDatabaseTest

\* C9: Keys asks the data handle only.  A Keys() on a dialed Lookaside makes
\* one inner call, data.Keys(), and returns its keys and its error; when the
\* data handle answers from its map, the result is one of the results Keys
\* has on the data handle alone, whatever the cache holds.
C9_KeysFromData ==
    \A c \in Callers :
        (call[c].op = "Keys" /\ Returned(c) /\ ~Undialed(lk))
        => /\ Len(log[c]) = 1
           /\ IsCall(c, 1, "data", "Keys")
           /\ ret[c] = Result(NilBytes, log[c][1].keys, log[c][1].err)
           /\ ~log[c][1].fault
              => \E o \in HashmapKeys(pre[c]["data"]) :
                    ret[c] = Result(NilBytes, o.keys, o.err)

\* a Keys() that returned the data handle's keys while the cache holds
\* other keys
C9_Witness ==
    \E c \in Callers :
        /\ Returned(c) /\ call[c].op = "Keys"
        /\ Len(log[c]) = 1 /\ log[c][1].err = NoErr /\ ~log[c][1].fault
        /\ ~ret[c].keys.isNil
        /\ DOMAIN store["cache"].m # DOMAIN store["data"].m
        /\ \A o \in HashmapKeys(store["cache"]) : o.keys # ret[c].keys

\* C10: HealthCheck asks both handles.  A HealthCheck() on a dialed Lookaside
\* returns only after data.HealthCheck() and then cache.HealthCheck() were
\* invoked, also when the first failed; it returns data's error if there is
\* one, otherwise cache's error if there is one, otherwise nil.
C10_HealthCheckBoth ==
    \A c \in Callers :
        (call[c].op = "HealthCheck" /\ Returned(c) /\ ~Undialed(lk))
        => /\ Len(log[c]) = 2
           /\ IsCall(c, 1, "data", "HealthCheck")
           /\ IsCall(c, 2, "cache", "HealthCheck")
           /\ ret[c].err = IF log[c][1].err # NoErr THEN log[c][1].err
                           ELSE log[c][2].err

\* a HealthCheck whose data check failed and whose cache check passed
C10_Witness ==
    \E c \in Callers :
        /\ Returned(c) /\ call[c].op = "HealthCheck"
        /\ Len(log[c]) = 2
        /\ log[c][1].err = ErrDatabaseTest /\ log[c][2].err = NoErr
        /\ ret[c].err = ErrDatabaseTest

\* C11: Setup short-circuits.  Setup() on a dialed Lookaside calls
\* data.Setup() first; when that fails it has returned data's error and
\* cache.Setup() is not invoked; otherwise it calls cache.Setup() and returns
\* its error, nil when both succeeded.
C11_SetupShortCircuit ==
    \A c \in Callers :
        /\ (call[c].op = "Setup" /\ Len(log[c]) >= 1 /\ log[c][1].err # NoErr)
           => /\ Returned(c)
              /\ IsCall(c, 1, "data", "Setup")
              /\ Len(log[c]) = 1
              /\ ret[c].err = log[c][1].err
        /\ (call[c].op = "Setup" /\ Returned(c) /\ ~Undialed(lk) /\ log[c][1].err = NoErr)
           => /\ IsCall(c, 1, "data", "Setup")
              /\ Len(log[c]) = 2
              /\ IsCall(c, 2, "cache", "Setup")
              /\ ret[c].err = log[c][2].err

\* a Setup whose data setup failed and whose cache setup would have passed
C11_Witness ==
    \E c \in Callers :
        /\ Returned(c) /\ call[c].op = "Setup"
        /\ Len(log[c]) = 1 /\ log[c][1].err = ErrDatabaseTest
        /\ ret[c].err = ErrDatabaseTest
        /\ HashmapSetup(store["cache"]).err = NoErr

----------------------------------------------------------------------------
\* Properties of the driver contract, the hashmap driver and the factory

DirectReturned(c) == pc[c] = "ddone"
\* caller c's call on the bare handle was answered by the hashmap driver
BareAnswered(c) == DirectReturned(c) /\ ~log[c][1].fault
FreshStores == [s \in Stores |-> HashmapDial]

\* C12: round trip.  On hashmap handles, bare or under a Lookaside, a Get(k)
\* that follows a Set(k, v) that returned nil, with no other Set(k, .),
\* Delete(k) or Close() in between, returns (v, nil); the Set may itself
\* have overwritten an earlier value of k.
C12_RoundTrip ==
    \A c \in Callers :
        (/\ ~anyFault
         /\ call[c].op = "Get"
         /\ Returned(c) \/ DirectReturned(c)
         /\ call[c].key \in DOMAIN expect)
        => ret[c] = Result(expect[call[c].key], NilStrs, NoErr)

\* a Get on a Lookaside over two hashmap handles that returned the value
\* last Set
C12_Witness ==
    \E c \in Callers :
        /\ ~anyFault /\ Returned(c) /\ lk = DialedLookaside
        /\ call[c].op = "Get" /\ call[c].key \in DOMAIN expect
        /\ expect[call[c].key] \in StoredVals
        /\ ret[c].val = expect[call[c].key]

\* C13: idempotent delete.  On open hashmap handles, bare or under a
\* Lookaside, Delete(k) of a non-empty key that is not stored returns nil
\* and leaves the handles as they were; and in the state any Delete(k)
\* returned in, a second Delete(k) leaves the handles as they are and has
\* the same result.
C13_IdempotentDelete ==
    \A c \in Callers :
        /\ (/\ BareAnswered(c) /\ call[c].op = "Delete" /\ Len(call[c].key) > 0
            /\ pre[c]["data"].open /\ call[c].key \notin DOMAIN pre[c]["data"].m)
           => (ret[c].err = NoErr /\ store = pre[c])
        /\ (/\ ~anyFault /\ Returned(c) /\ lk = DialedLookaside
            /\ call[c].op = "Delete" /\ Len(call[c].key) > 0
            /\ \A s \in Stores :
                  pre[c][s].open /\ call[c].key \notin DOMAIN pre[c][s].m)
           => (ret[c].err = NoErr /\ store = pre[c])
        /\ (BareAnswered(c) /\ call[c].op = "Delete")
           => LET again == HashmapDelete(store["data"], call[c].key)
              IN again.st = store["data"] /\ again.err = ret[c].err
        /\ (~anyFault /\ Returned(c) /\ lk = DialedLookaside /\ call[c].op = "Delete")
           => LET d == HashmapDelete(store["data"], call[c].key)
                  h == HashmapDelete(store["cache"], call[c].key)
              IN /\ d.st = store["data"]
                 /\ h.st = store["cache"]
                 /\ Delete_result(d.err, h.err).err = ret[c].err

\* a Delete, on a Lookaside that holds another key, of a key it does not
\* hold
C13_Witness ==
    \E c \in Callers :
        /\ ~anyFault /\ Returned(c) /\ lk = DialedLookaside
        /\ call[c].op = "Delete" /\ Len(call[c].key) > 0
        /\ call[c].key \notin DOMAIN pre[c]["data"].m
        /\ DOMAIN pre[c]["data"].m # {}
        /\ store = pre[c]
        /\ ret[c].err = NoErr

\* C14: after Close.  Every Setup, HealthCheck, Get, Set, Delete and Keys
\* that the hashmap driver answers on a closed handle returns an error.
C14_ClosedHandleFails ==
    \A c \in Callers :
        (BareAnswered(c) /\ ~pre[c]["data"].open /\ call[c].op # "Close")
        => ret[c].err # NoErr

\* C15: construction gating.  cache.Dial and lookaside.Dial with a nil
\* Database or a nil Cache return ErrInvalidDatabase and no handle, whatever
\* the CacheType, and no method of an inner handle has run.
C15_DialGating ==
    (fac.by # "none" /\ (~fac.database \/ ~fac.cache))
    => /\ fac.err = ErrInvalidDatabase
       /\ fac.kind = "nil"
       /\ lk = NilLookaside
       /\ store = FreshStores
       /\ ncalls = 0
       /\ \A c \in Callers : log[c] = <<>> /\ pc[c] \in {"nohandle", "off"}

\* cache.Dial was given no Database and a CacheType it does not know
C15_Witness ==
    /\ fac.by = "cache.Dial"
    /\ ~fac.database /\ fac.cache
    /\ fac.type \notin {TypeLookaside, TypeNone}
    /\ fac.err = ErrInvalidDatabase

\* C16: no default strategy.  cache.Dial with both handles given returns
\* ErrNoType and no handle for every CacheType other than Lookaside and
\* None, the unset one included, and a handle and nil for those two.
C16_NoDefaultType ==
    (fac.by = "cache.Dial" /\ fac.database /\ fac.cache)
    => IF fac.type \in {TypeLookaside, TypeNone}
       THEN fac.err = NoErr /\ fac.kind # "nil"
       ELSE /\ fac.err = ErrNoType
            /\ fac.kind = "nil"
            /\ \A c \in Callers : pc[c] \in {"nohandle", "off"}

\* cache.Dial was given both handles and the unset CacheType
C16_Witness ==
    /\ fac.by = "cache.Dial"
    /\ fac.database /\ fac.cache
    /\ fac.type = ""
    /\ fac.err = ErrNoType

\* C17: pass-through.  cache.Dial with CacheType None and both handles given
\* returns the Database handle: every call on what it returned is one call
\* of the same method with the same arguments on Database, returns that
\* call's answer and leaves Database as that call left it, and the Cache
\* handle stays as it was given.
C17_PassThrough ==
    (fac.by = "cache.Dial" /\ fac.type = TypeNone /\ fac.database /\ fac.cache)
    => /\ fac.kind = "database"
       /\ fac.target = "data"
       /\ fac.err = NoErr
       /\ store["cache"] = HashmapDial
       /\ \A c \in Callers :
             /\ pc[c] \in {"direct", "ddone", "off"}
             /\ DirectReturned(c)
                => /\ Len(log[c]) = 1
                   /\ IsCall(c, 1, "data", call[c].op)
                   /\ log[c][1].key = call[c].key
                   /\ log[c][1].data = call[c].data
                   /\ ret[c] = Result(log[c][1].val, log[c][1].keys, log[c][1].err)
                   /\ \E o \in Inner(pre[c]["data"], "data", call[c].op,
                                     call[c].key, call[c].data) :
                         /\ o.st = store["data"]
                         /\ ret[c] = Result(o.val, o.keys, o.err)

\* a Set through the handle of a None factory that changed Database
C17_Witness ==
    \E c \in Callers :
        /\ fac.by = "cache.Dial" /\ fac.type = TypeNone
        /\ DirectReturned(c) /\ call[c].op = "Set"
        /\ ret[c].err = NoErr
        /\ store["data"] # pre[c]["data"]
        /\ store["cache"] = HashmapDial

\* C18: validation predicates.  For the key and the data of every call,
\* ValidKey returns nil when the key's length is above 0 and ErrInvalidKey
\* otherwise, and ValidData returns nil when the data's length is above 0
\* and ErrInvalidData otherwise, a nil slice having length 0.
C18_Validation ==
    \A c \in Callers :
        call[c].op # "none"
        => /\ ValidKey(call[c].key) =
                 IF Len(call[c].key) > 0 THEN NoErr ELSE ErrInvalidKey
           /\ ValidData(call[c].data) =
                 IF ~call[c].data.isNil /\ Len(call[c].data.b) > 0
                 THEN NoErr ELSE ErrInvalidData

\* a Set with a valid key and an empty, non-nil value that the hashmap
\* driver refused
C18_Witness ==
    \E c \in Callers :
        /\ BareAnswered(c) /\ call[c].op = "Set"
        /\ Len(call[c].key) > 0
        /\ call[c].data = EmptyBytes
        /\ ret[c].err = ErrInvalidData

\* C19: validation before storage.  On a bare hashmap handle, Get, Set and
\* Delete with the empty key return ErrInvalidKey, Set with a non-empty key
\* and empty data returns ErrInvalidData, and the handle is as it was; Get
\* of a non-empty key that an open handle does not hold returns ErrNil,
\* which is not ErrInvalidKey.
C19_HashmapValidation ==
    \A c \in Callers :
        /\ (/\ BareAnswered(c) /\ call[c].op \in {"Get", "Set", "Delete"}
            /\ Len(call[c].key) = 0)
           => (ret[c].err = ErrInvalidKey /\ store = pre[c])
        /\ (/\ BareAnswered(c) /\ call[c].op = "Set"
            /\ Len(call[c].key) > 0 /\ BytesLen(call[c].data) = 0)
           => (ret[c].err = ErrInvalidData /\ store = pre[c])
        /\ (/\ BareAnswered(c) /\ call[c].op = "Get" /\ Len(call[c].key) > 0
            /\ pre[c]["data"].open /\ call[c].key \notin DOMAIN pre[c]["data"].m)
           => /\ ret[c].err = ErrNil
              /\ ~Is(ret[c].err, ErrInvalidKey)
              /\ store = pre[c]

\* a Set of empty data to a handle that holds a value, which it kept
C19_Witness ==
    \E c \in Callers :
        /\ BareAnswered(c) /\ call[c].op = "Set"
        /\ Len(call[c].key) > 0 /\ BytesLen(call[c].data) = 0
        /\ call[c].key \in DOMAIN pre[c]["data"].m
        /\ ret[c].err = ErrInvalidData
        /\ store = pre[c]

\* C20: Keys reflects the contents.  On an open bare hashmap handle Keys()
\* returns nil and, in some order and without duplicates, exactly the keys
\* that a Set that returned nil stored and no later Delete that returned nil
\* removed (none: an empty result), and leaves the handle as it was.
C20_KeysReflectContents ==
    \A c \in Callers :
        (BareAnswered(c) /\ call[c].op = "Keys" /\ pre[c]["data"].open)
        => /\ ret[c].err = NoErr
           /\ {ret[c].keys.s[i] : i \in 1..Len(ret[c].keys.s)} = live
           /\ Len(ret[c].keys.s) = Cardinality(live)
           /\ store = pre[c]

\* a Keys() that returned two keys
C20_Witness ==
    \E c \in Callers :
        /\ BareAnswered(c) /\ call[c].op = "Keys"
        /\ ret[c].err = NoErr
        /\ Len(ret[c].keys.s) = 2
        /\ Cardinality(live) = 2

----------------------------------------------------------------------------
\* Properties of the composite's error handling, order and bounds

\* the inner calls of caller c's current call were all answered by the
\* hashmap driver
Unfaulted(c) == \A i \in 1..Len(log[c]) : ~log[c][i].fault
\* caller c's Set wrote the data handle and then failed to write the cache
SetCacheFailed(c) ==
    /\ Returned(c) /\ call[c].op = "Set"
    /\ Len(log[c]) = 2
    /\ log[c][1].err = NoErr
    /\ log[c][2].err # NoErr
\* caller c's Get fetched a value from the data handle and then failed to
\* write it to the cache
RefillFailed(c) ==
    /\ Returned(c) /\ call[c].op = "Get"
    /\ Len(log[c]) = 3
    /\ IsCall(c, 3, "cache", "Set")
    /\ log[c][3].err # NoErr

\* C21: a Lookaside Set whose data.Set returned nil and whose cache.Set
\* failed returns an error that carries the ErrCacheError tag.
C21_SetCacheFailureTagged ==
    \A c \in Callers : SetCacheFailed(c) => Is(ret[c].err, ErrCacheError)

\* C22 as stated: a Get(k) that returns nil, answered by the hashmap
\* handles, after a Set(k, v) whose data write succeeded and whose cache
\* write failed, with no other write to k in between, returns v and leaves
\* the cache holding v at k, whatever the cache held at k.
C22_SelfHealAlways ==
    \A c \in Callers :
        (/\ Returned(c) /\ call[c].op = "Get" /\ Unfaulted(c)
         /\ call[c].key \in DOMAIN unsynced
         /\ ret[c].err = NoErr)
        => /\ ret[c].val = unsynced[call[c].key]
           /\ call[c].key \in DOMAIN store["cache"].m
           /\ store["cache"].m[call[c].key] = unsynced[call[c].key]

\* The part of C22 that the code provides: the same, when the cache holds no
\* value at k as the Get begins (the Get misses the cache).
C22_SelfHealOnMiss ==
    \A c \in Callers :
        (/\ Returned(c) /\ call[c].op = "Get" /\ Unfaulted(c)
         /\ call[c].key \in DOMAIN unsynced
         /\ call[c].key \notin DOMAIN pre[c]["cache"].m
         /\ ret[c].err = NoErr)
        => /\ ret[c].val = unsynced[call[c].key]
           /\ call[c].key \in DOMAIN store["cache"].m
           /\ store["cache"].m[call[c].key] = unsynced[call[c].key]

\* a Get that missed the cache after such a Set, returned the committed
\* value and refilled the cache with it
C22_Witness ==
    \E c \in Callers :
        /\ Returned(c) /\ call[c].op = "Get" /\ Unfaulted(c)
        /\ call[c].key \in DOMAIN unsynced
        /\ call[c].key \notin DOMAIN pre[c]["cache"].m
        /\ ret[c] = Result(unsynced[call[c].key], NilStrs, NoErr)
        /\ store["cache"].m = MapPut(pre[c]["cache"].m, call[c].key, unsynced[call[c].key])

\* C23 as stated: no call on the Lookaside makes more than two inner calls.
C23_AtMostTwo ==
    \A c \in Callers : Len(log[c]) <= 2

\* C23, amended: a Get makes at most three inner calls (cache.Get,
\* data.Get, cache.Set) and every other operation at most two, one after
\* the other, and the call has returned once that many were made.
C23_BoundedCalls ==
    \A c \in Callers :
        LET most == IF call[c].op = "Get" THEN 3 ELSE 2
        IN /\ Len(log[c]) <= most
           /\ Len(log[c]) = most => Returned(c)
           /\ pc[c] \in {"idle", "off"} => Len(log[c]) = 0

\* a Get that made three inner calls and returned
C23_Witness ==
    \E c \in Callers :
        /\ Returned(c) /\ call[c].op = "Get"
        /\ Len(log[c]) = 3

\* C25 as stated: a Get never returns both a value and a non-nil error.
C25_NeverValueAndError ==
    \A c \in Callers :
        (Returned(c) /\ call[c].op = "Get")
        => ~(ret[c].val # NilBytes /\ ret[c].err # NoErr)

\* C25, amended: a Get returns a nil error, or a non-nil error and no value,
\* or, when its write of the fetched value to the cache failed, the fetched
\* value together with an error that carries the ErrCacheError tag.
C25_OneOutcome ==
    \A c \in Callers :
        (Returned(c) /\ call[c].op = "Get")
        => \/ ret[c].err = NoErr
           \/ ret[c].err # NoErr /\ ret[c].val = NilBytes
           \/ /\ RefillFailed(c)
              /\ ret[c].val = log[c][2].val
              /\ Is(ret[c].err, ErrCacheError)
              /\ Is(ret[c].err, log[c][3].err)

\* a Get that returned a stored value together with an error
C25_Witness ==
    \E c \in Callers :
        /\ RefillFailed(c)
        /\ ret[c].val \in StoredVals
        /\ ret[c].err # NoErr

\* the inner calls each operation makes when none of them ends it early
CallOrder(op) ==
    CASE op = "Get" -> << <<"cache", "Get">>, <<"data", "Get">>, <<"cache", "Set">> >>
      [] op = "Set" -> << <<"data", "Set">>, <<"cache", "Set">> >>
      [] op = "Delete" -> << <<"data", "Delete">>, <<"cache", "Delete">> >>
      [] op = "HealthCheck" -> << <<"data", "HealthCheck">>, <<"cache", "HealthCheck">> >>
      [] op = "Setup" -> << <<"data", "Setup">>, <<"cache", "Setup">> >>
      [] op = "Close" -> << <<"data", "Close">>, <<"cache", "Close">> >>
      [] op = "Keys" -> << <<"data", "Keys">> >>
      [] op = "CacheKeys" -> << <<"cache", "Keys">> >>
      [] OTHER -> << >>

\* C28: fixed order.  The inner calls a call on the Lookaside has made are,
\* in order, the first ones of: cache.Get, data.Get, cache.Set for Get;
\* data.Set, cache.Set for Set; data.Delete, cache.Delete for Delete;
\* data.HealthCheck, cache.HealthCheck for HealthCheck; data.Close,
\* cache.Close for Close.  Get's data.Get follows a miss only and its
\* cache.Set a data hit only.  Each inner call is answered before the next
\* is made (one step each).
C28_FixedOrder ==
    \A c \in Callers :
        /\ Len(log[c]) <= Len(CallOrder(call[c].op))
        /\ \A i \in 1..Len(log[c]) :
              <<log[c][i].store, log[c][i].method>> = CallOrder(call[c].op)[i]
        /\ (call[c].op = "Get" /\ Len(log[c]) >= 2) => Is(log[c][1].err, ErrNil)
        /\ (call[c].op = "Get" /\ Len(log[c]) >= 3) => log[c][2].err = NoErr
        /\ (call[c].op = "Set" /\ Len(log[c]) >= 2) => log[c][1].err = NoErr

\* a Delete whose data.Delete failed and whose cache.Delete still came
\* second
C28_Witness ==
    \E c \in Callers :
        /\ Returned(c) /\ call[c].op = "Delete"
        /\ Len(log[c]) = 2
        /\ IsCall(c, 1, "data", "Delete") /\ log[c][1].err # NoErr
        /\ IsCall(c, 2, "cache", "Delete")

\* C29: no retry.  Within one call on the Lookaside no method of an inner
\* handle is called twice, whatever the inner calls answered.
C29_NoRetry ==
    \A c \in Callers :
        \A i \in 1..Len(log[c]) : \A j \in 1..Len(log[c]) :
            i # j => <<log[c][i].store, log[c][i].method>> #
                     <<log[c][j].store, log[c][j].method>>

\* a Set whose cache write failed and which returned after that one attempt
C29_Witness ==
    \E c \in Callers :
        /\ SetCacheFailed(c)
        /\ IsCall(c, 2, "cache", "Set")
        /\ ret[c].err = log[c][2].err

\* C30: no swallowed error.  A Setup, HealthCheck, Get, Set or Delete on the
\* Lookaside that returned nil made only inner calls that returned nil,
\* except that the cache.Get of a Get may have signalled ErrNil.
C30_NoSwallowedError ==
    \A c \in Callers :
        (/\ Returned(c)
         /\ call[c].op \in {"Setup", "HealthCheck", "Get", "Set", "Delete"}
         /\ ret[c].err = NoErr)
        => \A i \in 1..Len(log[c]) :
              \/ log[c][i].err = NoErr
              \/ /\ call[c].op = "Get" /\ i = 1
                 /\ IsCall(c, 1, "cache", "Get")
                 /\ Is(log[c][1].err, ErrNil)

\* a Get that returned nil after its cache.Get signalled ErrNil and its two
\* other inner calls returned nil
C30_Witness ==
    \E c \in Callers :
        /\ Returned(c) /\ call[c].op = "Get"
        /\ ret[c].err = NoErr
        /\ Len(log[c]) = 3
        /\ Is(log[c][1].err, ErrNil)
        /\ log[c][2].err = NoErr /\ log[c][3].err = NoErr

\* C24: no serialisation.  A caller whose Set is about to write the data or
\* the cache handle can do so whatever position another caller's call is
\* in; and when two callers' Sets of one key, answered by the hashmap
\* handles, have both returned nil, each handle holds the value of one of
\* the two, not necessarily the same one (C24_Witness).
C24_NotSerialized ==
    \A c \in Callers :
        /\ pc[c] = "Set_dataSet" => ENABLED Set_dataSet(c)
        /\ pc[c] = "Set_cacheSet" => ENABLED Set_cacheSet(c)
        /\ \A d \in Callers \ {c} :
              (/\ Returned(c) /\ Returned(d)
               /\ call[c].op = "Set" /\ call[d].op = "Set"
               /\ call[c].key = call[d].key
               /\ Unfaulted(c) /\ Unfaulted(d)
               /\ ret[c].err = NoErr /\ ret[d].err = NoErr)
              => \A s \in Stores :
                    /\ call[c].key \in DOMAIN store[s].m
                    /\ store[s].m[call[c].key] \in {call[c].data, call[d].data}

\* two Sets of one key have both returned nil; the data handle holds the
\* value of one and the cache handle the value of the other
C24_Witness ==
    \E c \in Callers : \E d \in Callers \ {c} :
        /\ Returned(c) /\ Returned(d)
        /\ call[c].op = "Set" /\ call[d].op = "Set"
        /\ call[c].key = call[d].key
        /\ call[c].data # call[d].data
        /\ Unfaulted(c) /\ Unfaulted(d)
        /\ ret[c].err = NoErr /\ ret[d].err = NoErr
        /\ store["data"].m[call[c].key] = call[c].data
        /\ store["cache"].m[call[c].key] = call[d].data

\* C26: Cache.Get of drivers/cache/cache.go reports a failed refill.  When
\* cache.Get signalled absence, data.Get returned nil and cache.Set failed
\* with e, Get returns an error that is e.
C26_CacheGetReportsRefill ==
    \A c \in Callers :
        RefillFailed(c)
        => /\ ret[c].err # NoErr
           /\ Is(ret[c].err, log[c][3].err)

\* C27: the mock driver.  mock.Dial returns a handle and nil.  Each of Setup,
\* HealthCheck, Get, Set, Delete and Keys of that handle returns what the
\* function of the Config returns for the call's arguments, and without that
\* function nil, with an empty byte slice for Get and an empty list for Keys.
\* Close leaves the handle as Dial made it.
C27_MockDelegates ==
    mock.dialed =>
        /\ mock.err = NoErr
        /\ mock.db.setupFunc = mock.cfg.SetupFunc
        /\ mock.db.healthCheckFunc = mock.cfg.HealthCheckFunc
        /\ mock.db.getFunc = mock.cfg.GetFunc
        /\ mock.db.setFunc = mock.cfg.SetFunc
        /\ mock.db.deleteFunc = mock.cfg.DeleteFunc
        /\ mock.db.keysFunc = mock.cfg.KeysFunc
        /\ \A c \in Callers :
              pc[c] = "mdone" =>
                 LET cfg == mock.cfg
                     cl == call[c]
                 IN CASE cl.op = "Setup" ->
                             ret[c] = Result(NilBytes, NilStrs,
                                 IF cfg.SetupFunc.set THEN cfg.SetupFunc.f ELSE NoErr)
                      [] cl.op = "HealthCheck" ->
                             ret[c] = Result(NilBytes, NilStrs,
                                 IF cfg.HealthCheckFunc.set THEN cfg.HealthCheckFunc.f
                                 ELSE NoErr)
                      [] cl.op = "Get" ->
                             ret[c] = IF cfg.GetFunc.set
                                      THEN Result(cfg.GetFunc.f[cl.key].val, NilStrs,
                                                  cfg.GetFunc.f[cl.key].err)
                                      ELSE Result(EmptyBytes, NilStrs, NoErr)
                      [] cl.op = "Set" ->
                             ret[c] = Result(NilBytes, NilStrs,
                                 IF cfg.SetFunc.set THEN cfg.SetFunc.f[<<cl.key, cl.data>>]
                                 ELSE NoErr)
                      [] cl.op = "Delete" ->
                             ret[c] = Result(NilBytes, NilStrs,
                                 IF cfg.DeleteFunc.set THEN cfg.DeleteFunc.f[cl.key]
                                 ELSE NoErr)
                      [] cl.op = "Keys" ->
                             ret[c] = IF cfg.KeysFunc.set
                                      THEN Result(NilBytes, cfg.KeysFunc.f.keys,
                                                  cfg.KeysFunc.f.err)
                                      ELSE Result(NilBytes, EmptyStrs, NoErr)
                      [] cl.op = "Close" -> ret[c] = NoRet

\* a Delete on a mock dialed with a Delete function and without a Get
\* function, which returned that function's error
C27_Witness ==
    \E c \in Callers :
        /\ mock.dialed /\ pc[c] = "mdone"
        /\ mock.cfg.DeleteFunc.set /\ ~mock.cfg.GetFunc.set
        /\ call[c].op = "Delete"
        /\ ret[c].err = mock.cfg.DeleteFunc.f[call[c].key]
        /\ ret[c].err # NoErr

----------------------------------------------------------------------------
\* Properties of closing, wiring, frames and histories

\* no call is in flight
Quiescent == \A c \in Callers : pc[c] \in {"idle", "done", "off"}

C35_CacheSubsetOfData ==
    (Quiescent /\ ~anyFault)
    => \A k \in DOMAIN store["cache"].m :
          /\ k \in DOMAIN store["data"].m
          /\ store["data"].m[k] = store["cache"].m[k]

\* a Delete returned nil and left another key in both handles
C35_Witness ==
    \E c \in Callers :
        /\ Quiescent /\ ~anyFault
        /\ Returned(c) /\ call[c].op = "Delete" /\ ret[c].err = NoErr
        /\ call[c].key \in DOMAIN pre[c]["cache"].m
        /\ DOMAIN store["cache"].m # {}
        /\ store["cache"].m = store["data"].m

\* C39: frame of the reads.  Get, Keys, CacheKeys and HealthCheck make no Set
\* or Delete call on the data handle and leave it as it was; Keys, CacheKeys
\* and HealthCheck leave the cache as it was too.  A Get calls cache.Set
\* only as its third inner call, after a miss and a data hit, with its own
\* key, and changes the cache at no other key; a Get that returned after
\* one or two inner calls changed nothing.
C39_ReadFrame ==
    \A c \in Callers :
        call[c].op \in {"Get", "Keys", "CacheKeys", "HealthCheck"}
        => /\ \A i \in 1..Len(log[c]) :
                 /\ ~(log[c][i].store = "data" /\ log[c][i].method \in {"Set", "Delete"})
                 /\ log[c][i].method \in {"Set", "Delete"}
                    => /\ call[c].op = "Get" /\ i = 3
                       /\ IsCall(c, 3, "cache", "Set")
                       /\ log[c][3].key = call[c].key
                       /\ Is(log[c][1].err, ErrNil)
                       /\ log[c][2].err = NoErr
           /\ store["data"] = pre[c]["data"]
           /\ call[c].op # "Get" => store = pre[c]
           /\ store["cache"] # pre[c]["cache"]
              => /\ Len(log[c]) = 3
                 /\ store["cache"].open = pre[c]["cache"].open
                 /\ \A k \in (DOMAIN store["cache"].m \cup DOMAIN pre[c]["cache"].m)
                                \ {call[c].key} :
                       /\ k \in DOMAIN store["cache"].m
                       /\ k \in DOMAIN pre[c]["cache"].m
                       /\ store["cache"].m[k] = pre[c]["cache"].m[k]
           /\ (Returned(c) /\ Len(log[c]) <= 2) => store = pre[c]

\* a Get that refilled the cache at its key and left the data handle alone
C39_Witness ==
    \E c \in Callers :
        /\ Returned(c) /\ call[c].op = "Get"
        /\ store["cache"] # pre[c]["cache"]
        /\ store["cache"].m = MapPut(pre[c]["cache"].m, call[c].key, ret[c].val)
        /\ store["data"] = pre[c]["data"]

\* C40: undialed guard.  On a Lookaside that is nil or lacks its data or its
\* cache handle, Setup, HealthCheck, Get, Set, Delete, Keys and CacheKeys
\* return ErrNoDial and Close returns; no inner call is made and both
\* handles are as they were.
C40_UndialedGuard ==
    (lk.isNil \/ ~lk.data \/ ~lk.cache)
    => \A c \in Callers :
          /\ pc[c] \in {"idle", "done", "off"}
          /\ log[c] = <<>>
          /\ store = [s \in Stores |-> HashmapDial]
          /\ Returned(c)
             => ret[c] = IF call[c].op = "Close" THEN NoRet
                         ELSE Result(NilBytes, NilStrs, ErrNoDial)

\* Close returned on a Lookaside that has a data handle and no cache handle
C40_Witness ==
    \E c \in Callers :
        /\ ~lk.isNil /\ lk.data /\ ~lk.cache
        /\ Returned(c) /\ call[c].op = "Close"
        /\ store["data"].open


\* C33: factory wiring.  cache.Dial with type Lookaside and both handles
\* returns a Lookaside whose data field holds the very Database handle given
\* and whose cache field the very Cache handle given: its Keys reads the
\* Database handle, its Get asks the Cache handle first, and its Set writes
\* into the handles the caller gave.
C33_FactoryWiring ==
    (fac.by = "cache.Dial" /\ fac.type = TypeLookaside /\ fac.database /\ fac.cache)
    => /\ fac.kind = "lookaside" /\ fac.err = NoErr
       /\ lk = DialedLookaside
       /\ Wired("data") = "data" /\ Wired("cache") = "cache"
       /\ \A c \in Callers :
             /\ (call[c].op = "Keys" /\ Len(log[c]) >= 1)
                => /\ IsCall(c, 1, "data", "Keys")
                   /\ ret[c].keys = log[c][1].keys
                   /\ Unfaulted(c) => ret[c].keys \in {o.keys : o \in HashmapKeys(store["data"])}
             /\ (call[c].op = "Get" /\ Len(log[c]) >= 1) => IsCall(c, 1, "cache", "Get")
             /\ (call[c].op = "Set" /\ Returned(c) /\ Unfaulted(c) /\ ret[c].err = NoErr)
                => \A s \in Stores : store[s].m = MapPut(pre[c][s].m, call[c].key, call[c].data)

\* Keys on the Lookaside that cache.Dial made listed a key that only the
\* Database handle holds
C33_Witness ==
    \E c \in Callers :
        /\ fac.by = "cache.Dial" /\ fac.type = TypeLookaside
        /\ Returned(c) /\ call[c].op = "Keys" /\ ret[c].err = NoErr
        /\ ret[c].keys.s # <<>>
        /\ store["cache"].m = EmptyMap /\ store["cache"].open
        /\ store["data"].m # EmptyMap


\* C34: the accessors.  CacheKeys makes one inner call, Keys on the cache
\* handle, returns what it answered and changes neither handle; GetCache
\* returns the handle in the cache field and GetDatabase the handle in the
\* data field, which on a dialed Lookaside are the Cache and the Database
\* handle given to Dial, with no inner call and no change of either handle.
C34_Accessors ==
    \A c \in Callers :
        /\ (call[c].op = "CacheKeys" /\ (~lk.isNil /\ lk.data /\ lk.cache))
           => /\ Len(log[c]) <= 1
              /\ \A i \in 1..Len(log[c]) : IsCall(c, i, "cache", "Keys")
              /\ store = pre[c]
              /\ Returned(c)
                 => /\ Len(log[c]) = 1
                    /\ ret[c].keys = log[c][1].keys /\ ret[c].err = log[c][1].err
                    /\ Unfaulted(c)
                       => ret[c].keys \in {o.keys : o \in HashmapKeys(store["cache"])}
        /\ (call[c].op \in AccessorOps /\ pc[c] = "done")
           => /\ log[c] = <<>> /\ store = pre[c]
              /\ call[c].op = "GetCache" => got[c] = IF lk.cache THEN "cache" ELSE "nil"
              /\ call[c].op = "GetDatabase" => got[c] = IF lk.data THEN "data" ELSE "nil"
              /\ fac.kind = "lookaside" => got[c] \in Stores
        /\ pc[c] = "panicked" => (lk.isNil /\ store = pre[c] /\ log[c] = <<>>)

\* GetCache on a Lookaside that a Dial made returned the Cache handle, which
\* holds what a Set wrote
C34_Witness ==
    \E c \in Callers :
        /\ fac.kind = "lookaside"
        /\ pc[c] = "done" /\ call[c].op = "GetCache" /\ got[c] = "cache"
        /\ store["cache"].m # EmptyMap


\* C31: the cache never holds an uncommitted value.  In every state of a
\* history of Get, Set and Delete over two handles that start empty, with
\* inner calls failing at will, every value the cache holds at a key is one
\* that a data.Set wrote at that key before; and every cache.Set follows, in
\* the same call, a data.Set or data.Get of the same key and value that
\* returned nil.
C31_CacheCommitted ==
    /\ \A k \in DOMAIN store["cache"].m : <<k, store["cache"].m[k]>> \in hist.committed
    /\ \A c \in Callers : \A i \in 1..Len(log[c]) :
          (log[c][i].store = "cache" /\ log[c][i].method = "Set")
          => /\ i >= 2
             /\ log[c][i - 1].store = "data"
             /\ log[c][i - 1].err = NoErr
             /\ log[c][i - 1].key = log[c][i].key
             /\ \/ /\ log[c][i - 1].method = "Set"
                   /\ log[c][i - 1].data = log[c][i].data
                \/ /\ log[c][i - 1].method = "Get"
                   /\ log[c][i - 1].val = log[c][i].data

\* a Get refilled the cache with a value that an earlier Set had written to
\* the data handle only
C31_Witness ==
    \E c \in Callers :
        /\ Returned(c) /\ call[c].op = "Get" /\ Len(log[c]) = 3
        /\ log[c][3].err = NoErr
        /\ call[c].key \notin DOMAIN pre[c]["cache"].m
        /\ call[c].key \in DOMAIN store["cache"].m
        /\ <<call[c].key, store["cache"].m[call[c].key]>> \in hist.committed

\* the keys in a key list
Listed(keys) == {keys.s[i] : i \in 1..Len(keys.s)}

\* C36: Delete is effective.  In a history of one caller, after a Delete(k)
\* that returned nil and no later Set(k, .), every Get(k) that the hashmap
\* handles answer returns ErrNil and Keys does not list k; and when Delete(k)
\* returns an error because only cache.Delete failed, k is gone from the
\* data handle and from its key list.
C36_DeleteEffective ==
    \A c \in Callers :
        /\ (Returned(c) /\ Unfaulted(c) /\ call[c].op = "Get"
            /\ call[c].key \in hist.start[c].gone)
           => ret[c] = Result(NilBytes, NilStrs, ErrNil)
        /\ (Returned(c) /\ Unfaulted(c) /\ call[c].op = "Keys")
           => /\ ret[c].err = NoErr
              /\ Listed(ret[c].keys) \cap hist.start[c].gone = {}
        /\ (/\ Returned(c) /\ call[c].op = "Delete" /\ Len(log[c]) = 2
            /\ log[c][1].err = NoErr /\ log[c][2].err # NoErr)
           => /\ ret[c].err # NoErr
              /\ call[c].key \notin DOMAIN store["data"].m
              /\ \A o \in HashmapKeys(store["data"]) : call[c].key \notin Listed(o.keys)

\* a Get of a key that was Set and then Deleted returned ErrNil
C36_Witness ==
    \E c \in Callers :
        /\ Returned(c) /\ Unfaulted(c) /\ call[c].op = "Get"
        /\ call[c].key \in hist.start[c].gone
        /\ \E v \in StoredVals : <<call[c].key, v>> \in hist.committed
        /\ ret[c].err = ErrNil


\* caller c's Get began when no call was in flight, and has returned
QuietGet(c) == Returned(c) /\ call[c].op = "Get" /\ c \in hist.quiet

\* C37 as stated: once a Delete(k) has returned nil and no Set(k, .) ran
\* with it or was invoked after it began, every Get(k) that begins when no
\* call is in flight returns ErrNil, also when a Get(k) was in flight while
\* the Delete ran.
C37_NoResurrection ==
    \A c \in Callers :
        (QuietGet(c) /\ call[c].key \in hist.start[c].gone)
        => Is(ret[c].err, ErrNil)

\* C37, amended: once a Delete(k) has returned nil, with no Get(k) and no
\* Set(k, .) in flight at any time while it ran and no Set(k, .) invoked
\* since, every Get(k) that begins when no call is in flight returns ErrNil.
C37_NoResurrectionWhenAlone ==
    \A c \in Callers :
        (QuietGet(c) /\ call[c].key \in hist.start[c].cleanGone)
        => ret[c] = Result(NilBytes, NilStrs, ErrNil)

\* a Get returned ErrNil for a key that the other caller had deleted from
\* the data handle
C37_Witness ==
    \E c \in Callers : \E d \in Callers \ {c} :
        /\ QuietGet(c) /\ call[c].key \in hist.start[c].cleanGone
        /\ ret[c].err = ErrNil
        /\ Returned(d) /\ call[d].op = "Delete" /\ call[d].key = call[c].key
        /\ call[d].key \in DOMAIN pre[d]["data"].m

\* C38 as stated: after a Set(k, v) has returned nil, with no other Set or
\* Delete on k in flight while it ran or invoked since, every Get(k) that
\* begins when no call is in flight returns v, also when a Get(k) was in
\* flight while the Set ran.
C38_ReadYourWrites ==
    \A c \in Callers :
        (QuietGet(c) /\ call[c].key \in DOMAIN hist.start[c].written)
        => ret[c] = Result(hist.start[c].written[call[c].key], NilStrs, NoErr)

\* C38, amended: after a Set(k, v) has returned nil, with no Get, Set or
\* Delete on k in flight at any time while it ran and no Set or Delete on k
\* invoked since, every Get(k) that begins when no call is in flight
\* returns v.
C38_ReadYourWritesWhenAlone ==
    \A c \in Callers :
        (QuietGet(c) /\ call[c].key \in DOMAIN hist.start[c].cleanWritten)
        => ret[c] = Result(hist.start[c].cleanWritten[call[c].key], NilStrs, NoErr)

\* a Get returned the value that the other caller's Set had put in place of
\* an older one
C38_Witness ==
    \E c \in Callers : \E d \in Callers \ {c} :
        /\ QuietGet(c) /\ call[c].key \in DOMAIN hist.start[c].cleanWritten
        /\ Returned(d) /\ call[d].op = "Set" /\ call[d].key = call[c].key
        /\ ret[c].val = call[d].data
        /\ call[d].key \in DOMAIN pre[d]["data"].m
        /\ pre[d]["data"].m[call[d].key] # call[d].data

====
